---------------------------- MODULE Spec2Model ----------------------------
(***************************************************************************)
(* A model of mcp-condenser: the parser registry (parsers.py), the         *)
(* condensing governor of the proxy middleware (proxy.py), the token-cap   *)
(* truncation and the condensing core (condenser.py).                      *)
(*                                                                         *)
(* The module holds several specifications over one set of variables:      *)
(*   SpecParse  - register_parser / parse_input                            *)
(*   SpecTrunc  - truncate_to_token_limit                                  *)
(*   SpecGov    - CondenserMiddleware.on_call_tool / _condense_item        *)
(*   SpecCond   - condense_json and the table pipeline                     *)
(* Each specification leaves the variables of the others at their idle     *)
(* value.                                                                  *)
(***************************************************************************)
EXTENDS Integers, Sequences, FiniteSets, TLC

VARIABLES
    registry,     \* parsers.PARSER_REGISTRY: the ordered list of parsers
    regPrev,      \* the registry before the last register_parser call
    regArg,       \* the arguments of the last register_parser call
    parseCall,    \* the last parse_input call: its arguments and outcome
    truncCall,    \* a truncate_to_token_limit call: its arguments and outcome
    mw,           \* the CondenserMiddleware: tool_server_map and server_configs
    call,         \* an on_call_tool call: its arguments and outcome
    condCall,     \* a condense_json call: its arguments and outcome
    tableCall,    \* a preprocess_table call: its arguments and outcome
    fnCall,       \* a flatten or find_identity_column call: arguments, outcome
    startup,      \* multi-upstream startup: the registration loop
    listCall      \* an on_list_tools call: middleware, tools, outcome

parseVars == <<registry, regPrev, regArg, parseCall>>

truncVars == <<truncCall>>

govVars == <<mw, call>>

condVars == <<condCall>>

tableVars == <<tableCall>>

fnVars == <<fnCall>>

startupVars == <<startup>>

listVars == <<listCall>>

vars == <<registry, regPrev, regArg, parseCall, truncCall, mw, call,
          condCall, tableCall, fnCall, startup, listCall>>

\* What the actions of one part of the program leave alone.
notParseVars ==
    <<truncVars, govVars, condVars, tableVars, fnVars, startupVars,
      listVars>>

notTruncVars ==
    <<parseVars, govVars, condVars, tableVars, fnVars, startupVars,
      listVars>>

notGovVars ==
    <<parseVars, truncVars, condVars, tableVars, fnVars, startupVars,
      listVars>>

notCondVars ==
    <<parseVars, truncVars, govVars, tableVars, fnVars, startupVars,
      listVars>>

notTableVars ==
    <<parseVars, truncVars, govVars, condVars, fnVars, startupVars,
      listVars>>

notFnVars ==
    <<parseVars, truncVars, govVars, condVars, tableVars, startupVars,
      listVars>>

notStartupVars ==
    <<parseVars, truncVars, govVars, condVars, tableVars, fnVars,
      listVars>>

notListVars ==
    <<parseVars, truncVars, govVars, condVars, tableVars, fnVars,
      startupVars>>

(***************************************************************************)
(* Generic helpers.                                                        *)
(***************************************************************************)
Range(s) == {s[i] : i \in 1..Len(s)}

Min2(a, b) == IF a <= b THEN a ELSE b

Max2(a, b) == IF a >= b THEN a ELSE b

\* The subsequence of s made of the elements satisfying Keep, in order.
RECURSIVE SelectIn(_, _)
SelectIn(s, keep) ==
    IF s = <<>> THEN <<>>
    ELSE IF Head(s) \in keep THEN <<Head(s)>> \o SelectIn(Tail(s), keep)
    ELSE SelectIn(Tail(s), keep)

(***************************************************************************)
(* parsers.py                                                              *)
(***************************************************************************)

\* The value of format_hint when no hint is given (Python's None).
NoHint == "<None>"

\* The built-in registry, in priority order.  Only csv carries a normalize.
BuiltinParsers ==
    << [id |-> "json", name |-> "json", norm |-> FALSE],
       [id |-> "yaml", name |-> "yaml", norm |-> FALSE],
       [id |-> "csv",  name |-> "csv",  norm |-> TRUE],
       [id |-> "xml",  name |-> "xml",  norm |-> FALSE] >>

\* Parsers an extension may register: a new format, and a second parser
\* registered under a name that is already taken.
ExtraParsers ==
    { [id |-> "toml",  name |-> "toml", norm |-> TRUE],
      [id |-> "json5", name |-> "json", norm |-> FALSE] }

\* The number of register_parser calls explored.
MaxRegistered == 2

\* A priority argument is <<>> for None and <<i>> for the integer i.  The
\* integers explored are -1 .. Len(registry) + PriorityOver.
NoPriority == <<>>

PriorityOver == 1

ParserIds == {p.id : p \in Range(BuiltinParsers) \cup ExtraParsers}

\* A text is characterised by the set of parsers whose try_parse accepts it.
\* json, yaml and csv overlap (a JSON document is a YAML flow document, a
\* multi-line document can sniff as CSV); XML needs a leading "<" and a
\* well-formed document, which none of the three others accepts.
BuiltinAccepts == (SUBSET {"json", "yaml", "csv"}) \cup {{"xml"}}

Texts == { b \cup e : b \in BuiltinAccepts, e \in SUBSET {"toml", "json5"} }

Hints == {NoHint, "json", "yaml", "csv", "xml", "toml", "nonexistent"}

\* Parser.try_parse: None (FALSE) or a result.
TryParse(p, text) == p.id \in text

\* list.insert(i, x) of Python: a negative index counts from the end and every
\* index is clamped to the list.
ListInsert(s, i, x) ==
    LET n   == Len(s)
        pos == IF i < 0 THEN Max2(n + i, 0) ELSE Min2(i, n)
    IN  SubSeq(s, 1, pos) \o <<x>> \o SubSeq(s, pos + 1, n)

\* A register_parser that ignores the priority and always appends.
RegisterParserAlwaysAppend(reg, parser, priority) == Append(reg, parser)

\* register_parser(parser, priority=...)
RegisterParserResult(reg, parser, priority) ==
    IF priority = NoPriority THEN Append(reg, parser)
    ELSE ListInsert(reg, priority[1], parser)

\* The outcome of a successful try_parse of parser p inside parse_input:
\* normalize is applied when the parser has one.
Accepted(p, tried) ==
    [ ok         |-> TRUE,
      by         |-> p.id,
      name       |-> p.name,
      tried      |-> tried,
      normalized |-> IF p.norm THEN <<p.id>> ELSE <<>> ]

Rejected(tried) ==
    [ ok |-> FALSE, by |-> "", name |-> "", tried |-> tried, normalized |-> <<>> ]

\* The index of the first parser named hint, 0 when there is none.
HintIndex(reg, hint) ==
    IF \E i \in 1..Len(reg) : reg[i].name = hint
    THEN CHOOSE i \in 1..Len(reg) :
            /\ reg[i].name = hint
            /\ \A j \in 1..(i - 1) : reg[j].name # hint
    ELSE 0

\* The full registry scan of parse_input, from index i on.
RECURSIVE FullScan(_, _, _, _, _)
FullScan(reg, text, hint, i, tried) ==
    IF i > Len(reg) THEN Rejected(tried)
    ELSE IF hint # NoHint /\ reg[i].name = hint
         THEN FullScan(reg, text, hint, i + 1, tried)
    ELSE IF TryParse(reg[i], text)
         THEN Accepted(reg[i], Append(tried, reg[i].id))
    ELSE FullScan(reg, text, hint, i + 1, Append(tried, reg[i].id))

\* parse_input(text, format_hint=hint): ok = FALSE stands for ValueError.
ParseInput(reg, text, hint) ==
    LET h == IF hint = NoHint THEN 0 ELSE HintIndex(reg, hint)
    IN  IF h > 0 /\ TryParse(reg[h], text)
        THEN Accepted(reg[h], <<reg[h].id>>)
        ELSE FullScan(reg, text, hint, 1,
                      IF h > 0 THEN <<reg[h].id>> ELSE <<>>)

IdleParseCall == [text |-> {}, hint |-> NoHint, done |-> FALSE,
                  res |-> Rejected(<<>>)]

IdleRegArg == [parser |-> BuiltinParsers[1], priority |-> NoPriority,
               done |-> FALSE]

ParseInit ==
    /\ registry = BuiltinParsers
    /\ regPrev = BuiltinParsers
    /\ regArg = IdleRegArg
    /\ parseCall = IdleParseCall

\* register_parser(parser, priority=priority).  The registry is mutated at
\* start-up only, before the first parse_input call.
RegisterParser ==
    /\ ~parseCall.done
    /\ Len(registry) < Len(BuiltinParsers) + MaxRegistered
    /\ \E parser \in ExtraParsers :
       \E priority \in {NoPriority} \cup
                        {<<i>> : i \in -1 .. Len(registry) + PriorityOver} :
          /\ \A i \in 1..Len(registry) : registry[i].id # parser.id
          /\ registry' = RegisterParserResult(registry, parser, priority)
          /\ regPrev' = registry
          /\ regArg' = [parser |-> parser, priority |-> priority, done |-> TRUE]
    /\ UNCHANGED parseCall
    /\ UNCHANGED notParseVars

\* parse_input(text, format_hint=hint)
ParseInputCall ==
    /\ ~parseCall.done
    /\ \E text \in Texts, hint \in Hints :
          parseCall' = [text |-> text, hint |-> hint, done |-> TRUE,
                        res |-> ParseInput(registry, text, hint)]
    /\ UNCHANGED <<registry, regPrev, regArg>>
    /\ UNCHANGED notParseVars

ParseNext == RegisterParser \/ ParseInputCall

(***************************************************************************)
(* condenser.py: token counting and truncation                             *)
(***************************************************************************)

\* A text, as far as token counting and the proxy see it: the upstream text it
\* comes from (src), how it was produced (form: "orig", "condense", "toon"),
\* its length in characters and whether it ends with the truncation notice.
OrigText(src, n) == [src |-> src, form |-> "orig", len |-> n, notice |-> FALSE]

\* count_tokens without tiktoken divides the length by this.
CharsPerToken == 4

\* count_tokens(text), the len(text) // 4 estimate.
CountTokens(text) == text.len \div CharsPerToken

\* len(str(n)) for a non-negative integer n.
RECURSIVE Digits(_)
Digits(n) == IF n < 10 THEN 1 ELSE 1 + Digits(n \div 10)

\* The characters of the truncation notice that are not digits:
\* "\n\n[truncated: output exceeded " + " token limit" + " - " +
\* " tokens reduced to ~" + "]".
NoticeFixedChars == 66

\* len() of the notice for a limit, an original count and a final count.
NoticeLen(max_tokens, orig_tokens, shown) ==
    NoticeFixedChars + Digits(max_tokens) + Digits(orig_tokens) + Digits(shown)

\* The binary search of truncate_to_token_limit for the longest prefix whose
\* token count is within target; count_tokens(text[:mid]) is mid // 4.
RECURSIVE PrefixSearch(_, _, _)
PrefixSearch(lo, hi, target) ==
    IF lo < hi
    THEN LET mid == (lo + hi + 1) \div 2
         IN  IF mid \div CharsPerToken <= target
             THEN PrefixSearch(mid, hi, target)
             ELSE PrefixSearch(lo, mid - 1, target)
    ELSE lo

\* A target that forgets to reserve room for the notice.
TruncTargetNoOverhead(max_tokens, notice_overhead) == max_tokens

\* target = max_tokens - notice_overhead, raised to 1 when not positive.
TruncTarget(max_tokens, notice_overhead) ==
    IF max_tokens - notice_overhead <= 0 THEN 1
    ELSE max_tokens - notice_overhead

\* truncate_to_token_limit(text, max_tokens)
TruncateToTokenLimit(text, max_tokens) ==
    IF max_tokens <= 0 THEN text
    ELSE LET orig_tokens == CountTokens(text)
         IN  IF orig_tokens <= max_tokens THEN text
             ELSE LET notice_overhead ==
                          NoticeLen(max_tokens, orig_tokens, max_tokens)
                              \div CharsPerToken
                      target == TruncTarget(max_tokens, notice_overhead)
                      lo == PrefixSearch(0, text.len, target)
                      final_tokens == lo \div CharsPerToken + notice_overhead
                  IN  [text EXCEPT
                         !.len = lo + NoticeLen(max_tokens, orig_tokens,
                                                final_tokens),
                         !.notice = TRUE]

\* The longest text and the largest limit of the truncation calls explored.
MaxTextLen == 160

MaxLimit == 30

IdleTruncCall == [text |-> OrigText(0, 0), limit |-> 0,
                  out |-> OrigText(0, 0), done |-> FALSE]

TruncIdle == truncCall = IdleTruncCall

\* The inputs of a truncation call: any text up to MaxTextLen characters and
\* any limit in -1 .. MaxLimit.
TruncInit ==
    \E n \in 0..MaxTextLen, limit \in -1..MaxLimit :
        truncCall = [text |-> OrigText(0, n), limit |-> limit,
                     out |-> OrigText(0, n), done |-> FALSE]

\* truncate_to_token_limit(text, limit)
Truncate ==
    /\ ~truncCall.done
    /\ truncCall' = [truncCall EXCEPT
                       !.out = TruncateToTokenLimit(truncCall.text,
                                                    truncCall.limit),
                       !.done = TRUE]
    /\ UNCHANGED notTruncVars

(***************************************************************************)
(* proxy.py: CondenserMiddleware                                           *)
(***************************************************************************)

\* Tool and server names are sequences of indivisible pieces of text, so that
\* "k8s_get" = <<"k8s", "_", "get">> starts with "k8s_" = <<"k8s", "_">>.
StartsWith(name, prefix) ==
    /\ Len(prefix) <= Len(name)
    /\ SubSeq(name, 1, Len(prefix)) = prefix

\* The upstream texts explored: length in characters, the parsers accepting
\* the text, the lengths of what condense_text and toon_encode make of its
\* data, and whether condense_text fails on it with an internal error.
UpstreamTexts ==
    << [len |-> 120, accepts |-> {},               cond |-> 0,   toon |-> 0,
        cond_raises |-> FALSE],
       [len |-> 36,  accepts |-> {"json", "yaml"}, cond |-> 20,  toon |-> 24,
        cond_raises |-> FALSE],
       [len |-> 40,  accepts |-> {"json", "yaml"}, cond |-> 40,  toon |-> 60,
        cond_raises |-> FALSE],
       [len |-> 120, accepts |-> {"yaml"},         cond |-> 100, toon |-> 140,
        cond_raises |-> FALSE],
       [len |-> 36,  accepts |-> {"csv"},          cond |-> 0,   toon |-> 20,
        cond_raises |-> TRUE] >>

\* The text of the upstream with index src.
UpstreamText(src) == OrigText(src, UpstreamTexts[src].len)

\* What the registered parsers accept of a text: an upstream text as the
\* catalogue says, a rewritten text is not parsed again.
TextAccepts(text) ==
    IF text.form = "orig" /\ ~text.notice THEN UpstreamTexts[text.src].accepts
    ELSE {}

\* condense_text(data, heuristics=h) on the data parsed from text.
CondenseText(text) ==
    [src |-> text.src, form |-> "condense",
     len |-> UpstreamTexts[text.src].cond, notice |-> FALSE]

\* toon_encode(data) on the data parsed from text.
ToonEncode(text) ==
    [src |-> text.src, form |-> "toon",
     len |-> UpstreamTexts[text.src].toon, notice |-> FALSE]

\* The content items of an envelope: TextContent items and one other kind.
TextItem(text) == [type |-> "text", text |-> text]

ImageItem == [type |-> "image", text |-> OrigText(0, 0)]

ContentItems ==
    {TextItem(UpstreamText(i)) : i \in 1..Len(UpstreamTexts)} \cup {ImageItem}

\* The number of content items of a tool result.
MaxItems == 2

Envelopes ==
    { [content |-> c, structured_content |-> "upstream"] :
        c \in UNION {[1..n -> ContentItems] : n \in 1..MaxItems} }

\* The fields of the Heuristics dataclass.
HeuristicsFields ==
    {"elide_all_zero", "elide_all_null", "elide_timestamps", "elide_constants",
     "group_tuples", "max_tuple_size", "max_table_columns",
     "elide_mostly_zero_pct"}

ToolGet == <<"get">>

ToolOther == <<"other">>

ServerK8s == <<"k8s">>

ServerDefault == <<"default">>

\* The server configurations explored.  tools_all stands for tools = None.
ServerConfigs ==
    [ condense            : BOOLEAN,
      tools_all           : {FALSE},
      tools               : {{ToolGet}, {ToolOther}},
      toon_only_tools     : {{}, {ToolGet}},
      toon_fallback       : BOOLEAN,
      min_token_threshold : {0, 10},
      revert_if_larger    : BOOLEAN,
      max_token_limit     : {0, 20},
      tool_token_limits   : {<<>>, (ToolGet :> 0), (ToolGet :> 25)},
      heuristics          : {{}, {"elide_constnts"}},
      tool_heuristics     : {<<>>, (ToolGet :> {"max_tuple_sise"})},
      format_hint         : {NoHint} ]
    \cup
    [ condense            : BOOLEAN,
      tools_all           : {TRUE},
      tools               : {{}},
      toon_only_tools     : {{}, {ToolGet}},
      toon_fallback       : BOOLEAN,
      min_token_threshold : {0, 10},
      revert_if_larger    : BOOLEAN,
      max_token_limit     : {0, 20},
      tool_token_limits   : {<<>>, (ToolGet :> 0), (ToolGet :> 25)},
      heuristics          : {{}, {"elide_constnts"}},
      tool_heuristics     : {<<>>, (ToolGet :> {"max_tuple_sise"})},
      format_hint         : {NoHint} ]

\* The middlewares explored: single-upstream (tool_server_map is None) and
\* multi-upstream with prefixed tool names.
Middlewares(cfg) ==
    { [ map_is_none     |-> TRUE,
        tool_server_map |-> <<>>,
        server_configs  |-> (ServerDefault :> cfg) ],
      [ map_is_none     |-> FALSE,
        tool_server_map |-> (ServerK8s \o <<"_">> \o ToolGet :> ServerK8s),
        server_configs  |-> (ServerK8s :> cfg) ] }

\* The tool names a client calls on a middleware.
CallableTools(m) ==
    IF m.map_is_none THEN {ToolGet}
    ELSE DOMAIN m.tool_server_map \cup {ToolOther}

\* dict.get(key, default)
DictGet(d, key, default) == IF key \in DOMAIN d THEN d[key] ELSE default

\* CondenserMiddleware._resolve_server_name
ResolveServerName(m, tool_name) ==
    IF ~m.map_is_none
    THEN DictGet(m.tool_server_map, tool_name, <<"unknown">>)
    ELSE IF DOMAIN m.server_configs = {} THEN <<"default">>
    ELSE CHOOSE sn \in DOMAIN m.server_configs : TRUE

\* CondenserMiddleware._resolve_server_config: <<>> stands for None, <<cfg>>
\* for the configuration found.
ResolveServerConfig(m, tool_name) ==
    IF ~m.map_is_none
    THEN IF tool_name \in DOMAIN m.tool_server_map
            /\ m.tool_server_map[tool_name] # <<>>
            /\ m.tool_server_map[tool_name] \in DOMAIN m.server_configs
         THEN <<m.server_configs[m.tool_server_map[tool_name]]>>
         ELSE <<>>
    ELSE IF Cardinality(DOMAIN m.server_configs) = 1
         THEN <<m.server_configs[CHOOSE sn \in DOMAIN m.server_configs : TRUE]>>
         ELSE <<>>

\* CondenserMiddleware._base_tool_name
BaseToolName(m, tool_name) ==
    IF /\ ~m.map_is_none
       /\ DOMAIN m.tool_server_map # {}
       /\ tool_name \in DOMAIN m.tool_server_map
    THEN LET prefix == m.tool_server_map[tool_name] \o <<"_">>
         IN  IF StartsWith(tool_name, prefix)
             THEN SubSeq(tool_name, Len(prefix) + 1, Len(tool_name))
             ELSE tool_name
    ELSE tool_name

\* A metrics call.  kind is "request" (mode), "tokens" (a = input, b = output),
\* "ratio" (a = output, b = input tokens), "processing" or "truncation".
Metric(kind, mode, a, b) == [kind |-> kind, mode |-> mode, a |-> a, b |-> b]

RequestMetric(mode) == Metric("request", mode, 0, 0)

\* The outcomes of _condense_item: None, a (text, mode) pair, an exception.
\* error is the exception of a call that raised: its type and, for the
\* TypeError of an invalid heuristics configuration, the option names its
\* message lists as valid.
NoError == [type |-> "none", valid_keys |-> {}]

ItemNone(mode, metrics) ==
    [raised |-> FALSE, rewritten |-> FALSE, text |-> OrigText(0, 0),
     mode |-> mode, metrics |-> metrics, error |-> NoError]

ItemRewritten(text, mode, metrics) ==
    [raised |-> FALSE, rewritten |-> TRUE, text |-> text,
     mode |-> mode, metrics |-> metrics, error |-> NoError]

ItemRaised ==
    [raised |-> TRUE, rewritten |-> FALSE, text |-> OrigText(0, 0),
     mode |-> "error", metrics |-> <<>>,
     error |-> [type |-> "internal", valid_keys |-> {}]]

\* The TypeError raised for merged heuristics that Heuristics(**merged)
\* rejects: "Invalid heuristics configuration ... Valid heuristic names
\* are: ..." with the names of the fields of Heuristics.
InvalidHeuristicsError ==
    [ItemRaised EXCEPT !.error = [type |-> "TypeError",
                                  valid_keys |-> HeuristicsFields]]

\* What _condense_item does when parse_input raises ValueError.
ParseFailurePropagates == ItemRaised

ParseFailureResult == ItemNone("passthrough", <<RequestMetric("passthrough")>>)

\* The minimum-size test of _condense_item.
BelowThresholdInclusive(orig_tokens, cfg) ==
    cfg.min_token_threshold > 0 /\ orig_tokens <= cfg.min_token_threshold

BelowThreshold(orig_tokens, cfg) ==
    cfg.min_token_threshold > 0 /\ orig_tokens < cfg.min_token_threshold

\* The mode chain of _condense_item: toon_only, condense, toon_fallback or
\* no match ("passthrough").
SelectModeToolsFirst(base_name, cfg) ==
    IF cfg.tools_all \/ base_name \in cfg.tools THEN "condense"
    ELSE IF base_name \in cfg.toon_only_tools THEN "toon_only"
    ELSE IF cfg.toon_fallback THEN "toon_fallback"
    ELSE "passthrough"

SelectMode(base_name, cfg) ==
    IF base_name \in cfg.toon_only_tools THEN "toon_only"
    ELSE IF cfg.tools_all \/ base_name \in cfg.tools THEN "condense"
    ELSE IF cfg.toon_fallback THEN "toon_fallback"
    ELSE "passthrough"

\* The revert test of _condense_item.
RevertsIfStrictlyLarger(cond_tok, orig_tok, cfg) ==
    cfg.revert_if_larger /\ cond_tok > orig_tok

RevertsIfLarger(cond_tok, orig_tok, cfg) ==
    cfg.revert_if_larger /\ cond_tok >= orig_tok

\* The merged heuristics of a tool: profile, then server, then tool options.
MergedHeuristicsServerOnly(base_name, cfg) == cfg.heuristics

MergedHeuristics(base_name, cfg) ==
    cfg.heuristics \cup DictGet(cfg.tool_heuristics, base_name, {})

\* CondenserMiddleware._condense_item(text, tool_name, cfg)
CondenseItem(m, text, tool_name, cfg) ==
    LET base_name   == BaseToolName(m, tool_name)
        parsed      == ParseInput(BuiltinParsers, TextAccepts(text),
                                  cfg.format_hint)
        orig_tokens == CountTokens(text)
        merged      == MergedHeuristics(base_name, cfg)
        mode        == SelectMode(base_name, cfg)
        condensed   == IF mode = "condense" THEN CondenseText(text)
                       ELSE ToonEncode(text)
        cond_tok    == CountTokens(condensed)
    IN  IF ~parsed.ok THEN ParseFailureResult
        ELSE IF BelowThreshold(orig_tokens, cfg)
             THEN ItemNone("skipped", <<RequestMetric("skipped")>>)
        ELSE IF merged # {} /\ ~(merged \subseteq HeuristicsFields)
             THEN InvalidHeuristicsError
        ELSE IF mode = "passthrough"
             THEN ItemNone("passthrough", <<RequestMetric("passthrough")>>)
        ELSE IF mode = "condense" /\ UpstreamTexts[text.src].cond_raises
             THEN ItemRaised
        ELSE IF RevertsIfLarger(cond_tok, orig_tokens, cfg)
             THEN ItemNone("reverted", <<RequestMetric("reverted")>>)
        ELSE ItemRewritten(condensed, mode,
                <<RequestMetric(mode),
                  Metric("tokens", mode, orig_tokens, cond_tok)>>
                \o (IF orig_tokens > 0
                    THEN <<Metric("ratio", mode, cond_tok, orig_tokens)>>
                    ELSE <<>>))

\* The first loop of on_call_tool from item i on: every TextContent item is
\* handed to _condense_item and rewritten when that returns a text; an
\* exception ends the call.  acc carries content, log (one entry per
\* _condense_item call), metrics, raised and condensed_any.
RECURSIVE CondenseLoop(_, _, _, _, _)
CondenseLoop(m, tool_name, cfg, i, acc) ==
    IF i > Len(acc.content) THEN acc
    ELSE IF acc.content[i].type # "text"
         THEN CondenseLoop(m, tool_name, cfg, i + 1, acc)
    ELSE LET item == acc.content[i]
             res  == CondenseItem(m, item.text, tool_name, cfg)
             log  == Append(acc.log, [index |-> i, text |-> item.text,
                                      res |-> res])
         IN  IF res.raised
             THEN [acc EXCEPT !.log = log, !.raised = TRUE]
             ELSE CondenseLoop(m, tool_name, cfg, i + 1,
                    [acc EXCEPT
                       !.log = log,
                       !.metrics = acc.metrics \o res.metrics
                                   \o <<Metric("processing", res.mode, 0, 0)>>,
                       !.content[i].text =
                           IF res.rewritten THEN res.text ELSE item.text,
                       !.condensed_any = acc.condensed_any \/ res.rewritten])

\* The token limit in force for a tool: its entry in tool_token_limits or
\* else max_token_limit.
EffectiveLimit(base_name, cfg) ==
    DictGet(cfg.tool_token_limits, base_name, cfg.max_token_limit)

\* The second loop of on_call_tool from item i on: every TextContent item is
\* cut to the limit; acc carries content and metrics.
RECURSIVE TruncateLoop(_, _, _)
TruncateLoop(limit, i, acc) ==
    IF i > Len(acc.content) THEN acc
    ELSE IF acc.content[i].type # "text" THEN TruncateLoop(limit, i + 1, acc)
    ELSE LET truncated == TruncateToTokenLimit(acc.content[i].text, limit)
         IN  IF truncated # acc.content[i].text
             THEN TruncateLoop(limit, i + 1,
                    [acc EXCEPT
                       !.content[i].text = truncated,
                       !.metrics = Append(acc.metrics,
                                          Metric("truncation", "", i, 0))])
             ELSE TruncateLoop(limit, i + 1, acc)

\* What a call of on_call_tool does with the envelope of the upstream:
\* outcome, the envelope returned, the content as the first loop left it, the
\* log of _condense_item calls and the metrics recorded.
OnCallToolResult(m, tool_name, upstream) ==
    LET found == ResolveServerConfig(m, tool_name)
    IN  IF found = <<>> \/ ~found[1].condense
        THEN [outcome |-> "returned", result |-> upstream,
              after_condense |-> upstream.content, log |-> <<>>,
              metrics |-> <<RequestMetric("passthrough")>>,
              governed |-> FALSE]
        ELSE
          LET cfg   == found[1]
              first == CondenseLoop(m, tool_name, cfg, 1,
                         [content |-> upstream.content, log |-> <<>>,
                          metrics |-> <<>>, raised |-> FALSE,
                          condensed_any |-> FALSE])
              structured == IF first.condensed_any THEN "none"
                            ELSE upstream.structured_content
              limit  == EffectiveLimit(BaseToolName(m, tool_name), cfg)
              second == IF limit > 0
                        THEN TruncateLoop(limit, 1,
                               [content |-> first.content,
                                metrics |-> first.metrics])
                        ELSE [content |-> first.content,
                              metrics |-> first.metrics]
          IN  IF first.raised
              THEN [outcome |-> "raised", result |-> upstream,
                    after_condense |-> first.content,
                    log |-> first.log, metrics |-> first.metrics,
                    governed |-> TRUE]
              ELSE [outcome |-> "returned",
                    result |-> [content |-> second.content,
                                structured_content |-> structured],
                    after_condense |-> first.content,
                    log |-> first.log, metrics |-> second.metrics,
                    governed |-> TRUE]

IdleCall ==
    [tool_name |-> <<>>,
     upstream |-> [content |-> <<>>, structured_content |-> "none"],
     res |-> [outcome |-> "idle",
              result |-> [content |-> <<>>, structured_content |-> "none"],
              after_condense |-> <<>>, log |-> <<>>, metrics |-> <<>>, governed |-> FALSE]]

IdleMiddleware ==
    [map_is_none |-> TRUE, tool_server_map |-> <<>>, server_configs |-> <<>>]

GovIdle == mw = IdleMiddleware /\ call = IdleCall

\* A middleware is constructed from a configuration; no call is in progress.
GovInit ==
    /\ \E cfg \in ServerConfigs : mw \in Middlewares(cfg)
    /\ call = IdleCall

\* CondenserMiddleware.on_call_tool: one tool call, from the upstream's
\* envelope to the envelope returned (or the exception raised).
OnCallTool ==
    /\ call.res.outcome = "idle"
    /\ \E tool_name \in CallableTools(mw), upstream \in Envelopes :
         call' = [tool_name |-> tool_name, upstream |-> upstream,
                  res |-> OnCallToolResult(mw, tool_name, upstream)]
    /\ UNCHANGED mw
    /\ UNCHANGED notGovVars

GovNext == OnCallTool

(***************************************************************************)
(* condenser.py: values and helpers                                        *)
(***************************************************************************)

\* A parsed Value: None, a bool, a number, a string, a list or a dict.  A
\* dict is the sequence of its items in insertion order; a key is the
\* sequence of its dot-separated segments, so that "a.b" is <<"a", "b">>.
Null == [t |-> "null"]

Bool(b) == [t |-> "bool", b |-> b]

Num(n) == [t |-> "number", n |-> n]

Str(s) == [t |-> "string", s |-> s]

Arr(a) == [t |-> "array", a |-> a]

Obj(o) == [t |-> "object", o |-> o]

Item(k, v) == [k |-> k, v |-> v]

\* classify(val)
Classify(val) == val.t

\* isinstance(v, list), isinstance(v, dict)
IsList(v) == v.t = "array"

IsDict(v) == v.t = "object"

\* The keys of a dict, in order.
RECURSIVE Keys(_)
Keys(d) == IF d = <<>> THEN <<>> ELSE <<Head(d).k>> \o Keys(Tail(d))

HasKey(d, key) == \E i \in 1..Len(d) : d[i].k = key

\* d.get(key, default)
Get(d, key, default) ==
    IF HasKey(d, key) THEN d[CHOOSE i \in 1..Len(d) : d[i].k = key].v
    ELSE default

\* d[key] = v: a key already present keeps its place.
SetItem(d, key, v) ==
    IF HasKey(d, key)
    THEN [i \in 1..Len(d) |-> IF d[i].k = key THEN Item(key, v) ELSE d[i]]
    ELSE Append(d, Item(key, v))

\* d.update(e)
RECURSIVE Update(_, _)
Update(d, e) ==
    IF e = <<>> THEN d
    ELSE Update(SetItem(d, Head(e).k, Head(e).v), Tail(e))

\* ".".join(segments), ",".join(strings), ", ".join(strings)
RECURSIVE JoinWith(_, _)
JoinWith(sep, s) ==
    IF s = <<>> THEN ""
    ELSE IF Len(s) = 1 THEN s[1]
    ELSE s[1] \o sep \o JoinWith(sep, Tail(s))

\* flatten(obj, pfx) from item i of obj on, added to out.
RECURSIVE FlattenFrom(_, _, _, _)
FlattenFrom(obj, pfx, i, out) ==
    IF i > Len(obj) THEN out
    ELSE LET key == pfx \o obj[i].k
             v   == obj[i].v
         IN  IF IsDict(v)
             THEN FlattenFrom(obj, pfx, i + 1,
                              Update(out, FlattenFrom(v.o, key, 1, <<>>)))
             ELSE FlattenFrom(obj, pfx, i + 1, SetItem(out, key, v))

\* flatten(obj): nested dicts become dotted keys, lists are kept as they are.
Flatten(obj) == FlattenFrom(obj, <<>>, 1, <<>>)

\* str(val) of a value inside a list or dict (repr).
RECURSIVE PyRepr(_)
PyRepr(val) ==
    CASE val.t = "null"   -> "None"
      [] val.t = "bool"   -> IF val.b THEN "True" ELSE "False"
      [] val.t = "number" -> ToString(val.n)
      [] val.t = "string" -> "'" \o val.s \o "'"
      [] val.t = "array"  ->
            "[" \o JoinWith(", ", [i \in 1..Len(val.a) |-> PyRepr(val.a[i])]) \o "]"
      [] val.t = "object" ->
            "{" \o JoinWith(", ",
                     [i \in 1..Len(val.o) |->
                        "'" \o JoinWith(".", val.o[i].k) \o "': "
                        \o PyRepr(val.o[i].v)]) \o "}"

\* fmt(val): "" for None, true/false for a bool, str(val) otherwise.
Fmt(val) ==
    CASE val.t = "null"   -> ""
      [] val.t = "bool"   -> IF val.b THEN "true" ELSE "false"
      [] val.t = "number" -> ToString(val.n)
      [] val.t = "string" -> val.s
      [] OTHER            -> PyRepr(val)

\* The strings matching the timestamp pattern of is_iso_ts, with what
\* datetime.fromisoformat makes of them: whether it parses, the seconds since
\* the first of them, whether it carries a zone offset, and its isoformat()
\* with "+00:00" replaced by "Z".
Timestamps ==
    ("2024-01-01T00:00:00Z" :>
        [ok |-> TRUE, sec |-> 0, aware |-> TRUE, iso |-> "2024-01-01T00:00:00Z"])
    @@ ("2024-01-01T00:00:30+00:00" :>
        [ok |-> TRUE, sec |-> 30, aware |-> TRUE, iso |-> "2024-01-01T00:00:30Z"])
    @@ ("2024-01-01T00:01:00Z" :>
        [ok |-> TRUE, sec |-> 60, aware |-> TRUE, iso |-> "2024-01-01T00:01:00Z"])
    @@ ("2024-01-01T00:02:00Z" :>
        [ok |-> TRUE, sec |-> 120, aware |-> TRUE, iso |-> "2024-01-01T00:02:00Z"])
    @@ ("2024-01-01T00:00:10" :>
        [ok |-> TRUE, sec |-> 10, aware |-> FALSE, iso |-> "2024-01-01T00:00:10"])
    @@ ("2024-01-01T00:00:99" :>
        [ok |-> FALSE, sec |-> 0, aware |-> FALSE, iso |-> ""])

\* is_iso_ts(str(v)) for a value v that is not None
IsIsoTs(v) == v.t = "string" /\ v.s \in DOMAIN Timestamps

\* str.lower() of a key segment.
Lowered == ("Name" :> "name") @@ ("ID" :> "id")

Lower(seg) == IF seg \in DOMAIN Lowered THEN Lowered[seg] ELSE seg

\* c.split(".")[-1].lower()
Leaf(c) == Lower(c[Len(c)])

\* The (key, value) pairs of flatten(item) whose value is not a list.
ScalarKeys(item) ==
    LET fl == Flatten(item.o)
    IN  SelectIn(Keys(fl), {k \in Range(Keys(fl)) : ~IsList(Get(fl, k, Null))})

\* is_homogeneous_array(arr): a list of two or more dicts with at least two
\* scalar keys in all, 60% of them common to all items.
IsHomogeneousArray(arr) ==
    /\ arr # <<>>
    /\ \A i \in 1..Len(arr) : IsDict(arr[i])
    /\ Len(arr) >= 2
    /\ LET union  == UNION {Range(ScalarKeys(arr[i])) : i \in 1..Len(arr)}
           common == {k \in union :
                        \A i \in 1..Len(arr) : k \in Range(ScalarKeys(arr[i]))}
       IN  /\ Cardinality(union) >= 2
           /\ Cardinality(common) * 10 >= Cardinality(union) * 6

\* Append the elements of t that s lacks, in order.
RECURSIVE AppendNew(_, _)
AppendNew(s, t) ==
    IF t = <<>> THEN s
    ELSE AppendNew(IF Head(t) \in Range(s) THEN s ELSE Append(s, Head(t)),
                   Tail(t))

\* union_columns(arr): the scalar columns of all items, in first-seen order.
RECURSIVE UnionColumnsFrom(_, _, _)
UnionColumnsFrom(arr, i, keys) ==
    IF i > Len(arr) THEN keys
    ELSE UnionColumnsFrom(arr, i + 1, AppendNew(keys, ScalarKeys(arr[i])))

UnionColumns(arr) == UnionColumnsFrom(arr, 1, <<>>)

\* The distinct non-empty formatted values of a column.
ColCardinality(arr, col) ==
    Cardinality({Fmt(Get(Flatten(arr[i].o), col, Null)) : i \in 1..Len(arr)}
                \ {""})

\* max(matches, key=_cardinality): the first column of greatest cardinality.
MaxByCardinality(arr, matches) ==
    matches[CHOOSE i \in 1..Len(matches) :
              /\ \A j \in 1..Len(matches) :
                   ColCardinality(arr, matches[j]) <= ColCardinality(arr, matches[i])
              /\ \A j \in 1..(i - 1) :
                   ColCardinality(arr, matches[j]) < ColCardinality(arr, matches[i])]

\* find_identity_column(cols, arr): <<>> stands for None, <<c>> for column c.
IdentityKeywordsIdFirst == <<"id", "name", "uid">>

IdentityKeywords == <<"name", "id", "uid">>

RECURSIVE FindIdentityFrom(_, _, _)
FindIdentityFrom(cols, arr, i) ==
    IF i > Len(IdentityKeywords)
    THEN IF cols # <<>> THEN <<cols[1]>> ELSE <<>>
    ELSE LET matches == SelectIn(cols, {c \in Range(cols) :
                                          Leaf(c) = IdentityKeywords[i]})
         IN  IF matches = <<>> THEN FindIdentityFrom(cols, arr, i + 1)
             ELSE IF Len(matches) = 1 THEN <<matches[1]>>
             ELSE <<MaxByCardinality(arr, matches)>>

FindIdentityColumn(cols, arr) == FindIdentityFrom(cols, arr, 1)

\* find_identity_column(cols) with arr = None: the first match of the first
\* keyword that matches.
FindIdentityColumnNoRows(cols) ==
    LET matches(i) == SelectIn(cols, {c \in Range(cols) :
                                        Leaf(c) = IdentityKeywords[i]})
        hits == {i \in 1..Len(IdentityKeywords) : matches(i) # <<>>}
    IN  IF hits # {}
        THEN <<matches(CHOOSE i \in hits : \A j \in hits : i <= j)[1]>>
        ELSE IF cols # <<>> THEN <<cols[1]>> ELSE <<>>

\* order_columns(cols): identifier-like columns first.
OrderColumnsAsSeen(cols) == cols

OrderKeywords == {"name", "id", "ref", "uid", "namespace", "label", "nodename"}

OrderColumns(cols) ==
    SelectIn(cols, {c \in Range(cols) : Leaf(c) \in OrderKeywords})
    \o SelectIn(cols, {c \in Range(cols) : Leaf(c) \notin OrderKeywords})

(***************************************************************************)
(* condenser.py: column analysis and preprocess_table                      *)
(***************************************************************************)

\* Heuristics(): the defaults.  elide_mostly_zero_pct is held in percent.
DefaultHeuristics ==
    [elide_all_zero |-> TRUE, elide_all_null |-> TRUE,
     elide_timestamps |-> TRUE, elide_constants |-> TRUE,
     group_tuples |-> TRUE, max_tuple_size |-> 4, max_table_columns |-> 0,
     elide_mostly_zero_pct |-> 0]

\* analyze_columns(arr, cols)[col].  raises tells that max(parsed) compares a
\* timestamp with a zone offset to one without and raises TypeError.
ColInfo(arr, col) ==
    LET raw     == [i \in 1..Len(arr) |-> Get(Flatten(arr[i].o), col, Null)]
        fmted   == [i \in 1..Len(arr) |-> Fmt(raw[i])]
        unique  == Range(fmted)
        all_ts  == \A i \in 1..Len(arr) : raw[i] # Null => IsIsoTs(raw[i])
        parsed  == IF all_ts
                   THEN {i \in 1..Len(arr) :
                           raw[i] # Null /\ Timestamps[raw[i].s].ok}
                   ELSE {}
        ts(i)   == Timestamps[raw[i].s]
        raises  == \E i, j \in parsed : ts(i).aware /\ ~ts(j).aware
        cluster == /\ parsed # {}
                   /\ ~raises
                   /\ \A i, j \in parsed : ts(i).sec - ts(j).sec <= 60
        mid_idx == Cardinality(parsed) \div 2
        center  == IF cluster
                   THEN ts(CHOOSE i \in parsed :
                             /\ Cardinality({j \in parsed : ts(j).sec < ts(i).sec})
                                  <= mid_idx
                             /\ mid_idx <
                                Cardinality({j \in parsed : ts(j).sec <= ts(i).sec})).iso
                   ELSE ""
    IN  [fmted |-> fmted, unique |-> unique,
         is_all_zero  |-> unique \subseteq {"0", "", "0.0"},
         is_all_null  |-> unique \subseteq {""},
         is_constant  |-> Cardinality(unique) = 1,
         const_val    |-> IF Cardinality(unique) = 1 THEN fmted[1] ELSE "",
         is_timestamp |-> all_ts,
         ts_clustered |-> cluster,
         ts_center    |-> center,
         raw |-> raw, raises |-> raises]

\* The strings matching ^-?\d+\.?\d*$ among those the model forms.
NumericStrings == {ToString(n) : n \in -9..99} \cup {"0.0", "1.5"}

\* col.rsplit(".", 1)[0]
Prefix(col) == SubSeq(col, 1, Len(col) - 1)

\* detect_numeric_tuples(cols, col_info): the groups of three or more columns
\* with a common prefix whose values are all empty or all numeric, as a
\* sequence of (prefix, members) in first-seen order of the prefixes.
TupleEligibleAny(m_info) == TRUE

TupleEligible(m_info) ==
    \/ (~m_info.is_timestamp /\ m_info.unique \ {""} = {})
    \/ \A i \in 1..Len(m_info.fmted) :
          m_info.fmted[i] \in NumericStrings \/ m_info.fmted[i] = ""

DetectNumericTuples(cols, info) ==
    LET dotted   == SelectIn(cols, {c \in Range(cols) : Len(c) >= 2})
        prefixes == AppendNew(<<>>, [i \in 1..Len(dotted) |-> Prefix(dotted[i])])
        members(pfx) == SelectIn(dotted, {c \in Range(dotted) : Prefix(c) = pfx})
        groups   == [i \in 1..Len(prefixes) |->
                       [prefix |-> prefixes[i], members |-> members(prefixes[i])]]
    IN  SelectIn(groups,
                 {g \in Range(groups) :
                    /\ Len(g.members) >= 3
                    /\ \A m \in Range(g.members) : TupleEligible(info[m])})

\* An annotation line: its kind, the columns it names and the values it
\* quotes.
Annotation(kind, cols, values) ==
    [kind |-> kind, cols |-> cols, values |-> values]

\* The cell of a tuple column: the comma-joined formatted values.
Joined(parts) == [t |-> "string", s |-> JoinWith(",", parts), parts |-> parts]

\* The concatenation of a sequence of sequences.
RECURSIVE Concat(_)
Concat(ss) == IF ss = <<>> THEN <<>> ELSE Head(ss) \o Concat(Tail(ss))

\* Step 6 of preprocess_table from column i on: the final (header, sources)
\* list, a tuple taking the place of its first member.
RECURSIVE FinalFrom(_, _, _, _, _, _)
FinalFrom(cols, i, elided, tuple_map, final, seen) ==
    IF i > Len(cols) THEN final
    ELSE LET c == cols[i]
             hits == SelectIn(tuple_map,
                              {tm \in Range(tuple_map) :
                                 c \in Range(tm.members) /\ tm.header \notin seen})
         IN  IF c \in elided \/ c \in seen
             THEN FinalFrom(cols, i + 1, elided, tuple_map, final, seen)
             ELSE IF \E tm \in Range(tuple_map) : c \in Range(tm.members)
             THEN IF hits # <<>>
                  THEN FinalFrom(cols, i + 1, elided, tuple_map,
                                 Append(final, [header |-> hits[1].header,
                                                srcs |-> hits[1].members]),
                                 seen \cup {hits[1].header}
                                      \cup Range(hits[1].members))
                  ELSE FinalFrom(cols, i + 1, elided, tuple_map, final, seen)
             ELSE FinalFrom(cols, i + 1, elided, tuple_map,
                            Append(final, [header |-> c, srcs |-> <<c>>]),
                            seen \cup {c})

\* Step 7 of preprocess_table: the cleaned row of an item.
RECURSIVE CleanedRowFrom(_, _, _, _)
CleanedRowFrom(fl, final, i, row) ==
    IF i > Len(final) THEN row
    ELSE LET srcs == final[i].srcs
             val  == Get(fl, srcs[1], Null)
             cell == IF Len(srcs) = 1
                     THEN IF val = Null THEN Str("") ELSE val
                     ELSE Joined([j \in 1..Len(srcs) |->
                                    Fmt(Get(fl, srcs[j], Null))])
         IN  CleanedRowFrom(fl, final, i + 1, SetItem(row, final[i].header, cell))

\* The elision steps of preprocess_table work on the annotations written so
\* far and the set of columns elided so far.
NothingElided == [annotations |-> <<>>, elided |-> {}]

ElideUnannotated(st, annotations, cols) ==
    [annotations |-> st.annotations,
     elided |-> st.elided \cup Range(cols)]

Elide(st, annotations, cols) ==
    [annotations |-> st.annotations \o annotations,
     elided |-> st.elided \cup Range(cols)]

\* 1) all-zero columns: one annotation naming them all.
ElideAllZero(cols, info, h, st) ==
    LET zc == SelectIn(cols, {c \in Range(cols) :
                                info[c].is_all_zero /\ ~info[c].is_all_null})
    IN  IF h.elide_all_zero /\ zc # <<>>
        THEN Elide(st, <<Annotation("all_zero", zc, <<>>)>>, zc)
        ELSE st

\* 2) all-null columns: one annotation naming them all.
ElideAllNull(cols, info, h, st) ==
    LET nc == SelectIn(cols, {c \in Range(cols) :
                                info[c].is_all_null /\ c \notin st.elided})
    IN  IF h.elide_all_null /\ nc # <<>>
        THEN Elide(st, <<Annotation("all_null", nc, <<>>)>>, nc)
        ELSE st

\* The "label=value" pairs of the rows of column c that are not zero.
Outliers(arr, id_col, fmted) ==
    LET rows == SelectIn([i \in 1..Len(arr) |-> i],
                         {i \in 1..Len(arr) : fmted[i] \notin {"0", ""}})
    IN  Concat([j \in 1..Len(rows) |->
                  << IF id_col # <<>>
                     THEN Fmt(Get(Flatten(arr[rows[j]].o), id_col[1], Null))
                     ELSE ToString(rows[j] - 1),
                     fmted[rows[j]] >>])

\* 2.5) mostly-zero columns: the share of "0" and "" cells reaches the
\* threshold.
ElideMostlyZero(arr, cols, info, h, st) ==
    LET n_zero(c) == Cardinality({i \in 1..Len(arr) :
                                    info[c].fmted[i] \in {"0", ""}})
        mz == SelectIn(cols, {c \in Range(cols) :
                 /\ c \notin st.elided
                 /\ ~info[c].is_all_zero
                 /\ ~info[c].is_all_null
                 /\ Len(arr) # 0
                 /\ n_zero(c) * 100 >= h.elide_mostly_zero_pct * Len(arr)})
    IN  IF h.elide_mostly_zero_pct > 0
        THEN Elide(st,
                   [j \in 1..Len(mz) |->
                      Annotation("mostly_zero", <<mz[j]>>,
                                 Outliers(arr, FindIdentityColumn(cols, arr),
                                          info[mz[j]].fmted))],
                   mz)
        ELSE st

\* 3) clustered timestamp columns.
ElideTimestamps(cols, info, h, st) ==
    LET tc == SelectIn(cols, {c \in Range(cols) :
                                c \notin st.elided /\ info[c].ts_clustered})
    IN  IF h.elide_timestamps
        THEN Elide(st,
                   [j \in 1..Len(tc) |->
                      IF info[tc[j]].is_constant
                      THEN Annotation("constant", <<tc[j]>>,
                                      <<info[tc[j]].const_val>>)
                      ELSE Annotation("timestamp_cluster", <<tc[j]>>,
                                      <<info[tc[j]].ts_center>>)],
                   tc)
        ELSE st

\* 4) other constant columns.
ElideConstantsAlways(cols, info, h, st) ==
    LET cc == SelectIn(cols, {c \in Range(cols) :
                 /\ c \notin st.elided
                 /\ info[c].is_constant
                 /\ ~info[c].is_all_zero
                 /\ ~info[c].is_all_null})
    IN  Elide(st,
              [j \in 1..Len(cc) |->
                 Annotation("constant", <<cc[j]>>, <<info[cc[j]].const_val>>)],
              cc)

ElideConstants(cols, info, h, st) ==
    LET cc == SelectIn(cols, {c \in Range(cols) :
                 /\ c \notin st.elided
                 /\ info[c].is_constant
                 /\ ~info[c].is_all_zero
                 /\ ~info[c].is_all_null})
    IN  IF h.elide_constants
        THEN Elide(st,
                   [j \in 1..Len(cc) |->
                      Annotation("constant", <<cc[j]>>, <<info[cc[j]].const_val>>)],
                   cc)
        ELSE st

\* The header of a tuple column: prefix(leaf,leaf,...).
TupleHeader(g) ==
    <<JoinWith(".", g.prefix) \o "("
      \o JoinWith(",", [k \in 1..Len(g.members) |->
                          g.members[k][Len(g.members[k])]])
      \o ")">>

TupleEntry(g) == [header |-> TupleHeader(g), members |-> g.members]

\* 5) the numeric tuples of the remaining columns, of 3 to max_tuple_size
\* members.
TupleMap(remaining, info, h) ==
    LET sized == SelectIn(DetectNumericTuples(remaining, info),
                          {g \in Range(DetectNumericTuples(remaining, info)) :
                             /\ Len(g.members) >= 3
                             /\ Len(g.members) <= h.max_tuple_size})
    IN  IF h.group_tuples THEN [j \in 1..Len(sized) |-> TupleEntry(sized[j])]
        ELSE <<>>

\* 6.5) whether the width cap applies.
CappedInclusive(h, final) ==
    h.max_table_columns > 0 /\ Len(final) >= h.max_table_columns

Capped(h, final) ==
    h.max_table_columns > 0 /\ Len(final) > h.max_table_columns

\* 6.5) the width cap, and 7) the cleaned rows of the columns kept.
CapAndClean(arr, h, st, final, raises) ==
    LET capped == Capped(h, final)
        kept   == IF capped THEN SubSeq(final, 1, h.max_table_columns) ELSE final
        overflow == SubSeq(final, h.max_table_columns + 1, Len(final))
    IN  [annotations  |->
            IF capped
            THEN Append(st.annotations,
                        Annotation("overflow",
                                   [j \in 1..Len(overflow) |-> overflow[j].header],
                                   <<ToString(Len(overflow))>>))
            ELSE st.annotations,
         cleaned_rows |-> [i \in 1..Len(arr) |->
                             CleanedRowFrom(Flatten(arr[i].o), kept, 1, <<>>)],
         final        |-> kept,
         raises       |-> raises]

\* preprocess_table from step 5 on.
GroupAndClean(arr, cols, info, h, st) ==
    CapAndClean(arr, h, st,
                FinalFrom(cols, 1, st.elided,
                          TupleMap(SelectIn(cols, Range(cols) \ st.elided), info, h),
                          <<>>, {}),
                \E c \in Range(cols) : info[c].raises)

\* preprocess_table from step 1 on.
ElideAndCleanConstantsFirst(arr, cols, info, h) ==
    GroupAndClean(arr, cols, info, h,
      ElideTimestamps(cols, info, h,
        ElideConstants(cols, info, h,
          ElideMostlyZero(arr, cols, info, h,
            ElideAllNull(cols, info, h,
              ElideAllZero(cols, info, h, NothingElided))))))

ElideAndClean(arr, cols, info, h) ==
    GroupAndClean(arr, cols, info, h,
      ElideConstants(cols, info, h,
        ElideTimestamps(cols, info, h,
          ElideMostlyZero(arr, cols, info, h,
            ElideAllNull(cols, info, h,
              ElideAllZero(cols, info, h, NothingElided))))))

AnalyzeAndClean(arr, cols, h) ==
    ElideAndClean(arr, cols, [c \in Range(cols) |-> ColInfo(arr, c)], h)

\* preprocess_table(name, arr, heuristics): annotations, cleaned rows and
\* final columns; raises tells that analyze_columns raised.
PreprocessTable(arr, heuristics) ==
    AnalyzeAndClean(arr, OrderColumns(UnionColumns(arr)), heuristics)

(***************************************************************************)
(* condenser.py: rendering and the recursive condenser                     *)
(***************************************************************************)

\* The key segments of the model in ascending string order, and sorted() on
\* a set of keys.
SegmentOrder ==
    <<"None", "_parent", "count", "id", "items", "k", "name", "tags", "ts", "v", "w">>

SegmentRank(seg) == CHOOSE i \in 1..Len(SegmentOrder) : SegmentOrder[i] = seg

RECURSIVE KeyBefore(_, _)
KeyBefore(a, b) ==
    IF a = <<>> THEN b # <<>>
    ELSE IF b = <<>> THEN FALSE
    ELSE IF Head(a) = Head(b) THEN KeyBefore(Tail(a), Tail(b))
    ELSE SegmentRank(Head(a)) < SegmentRank(Head(b))

RECURSIVE Sorted(_)
Sorted(keys) ==
    IF keys = {} THEN <<>>
    ELSE LET first == CHOOSE k \in keys : \A o \in keys \ {k} : KeyBefore(k, o)
         IN  <<first>> \o Sorted(keys \ {first})

\* The strings of a text produced by toon_format.encode: every key and every
\* scalar that is not None, verbatim.
RECURSIVE ToonFormatEncode(_)
ToonFormatEncode(val) ==
    CASE val.t = "array"  ->
            UNION {ToonFormatEncode(val.a[i]) : i \in 1..Len(val.a)}
      [] val.t = "object" ->
            UNION {{JoinWith(".", val.o[i].k)} \cup ToonFormatEncode(val.o[i].v) :
                     i \in 1..Len(val.o)}
      [] val.t = "null"   -> {}
      [] OTHER -> IF "parts" \in DOMAIN val THEN Range(val.parts) \cup {val.s}
                  ELSE {Fmt(val)}

\* The strings json.dumps escapes (ensure_ascii), with their escaped form.
JsonEscapes == ("caf<e9>" :> "caf\\u00e9")

JsonString(str) == IF str \in DOMAIN JsonEscapes THEN JsonEscapes[str] ELSE str

\* The strings of the text produced by json.dumps.
RECURSIVE JsonDumps(_)
JsonDumps(val) ==
    CASE val.t = "array"  -> UNION {JsonDumps(val.a[i]) : i \in 1..Len(val.a)}
      [] val.t = "object" ->
            UNION {{JsonString(JoinWith(".", val.o[i].k))} \cup JsonDumps(val.o[i].v) :
                     i \in 1..Len(val.o)}
      [] val.t = "null"   -> {"null"}
      [] val.t = "string" -> {JsonString(val.s)}
      [] OTHER            -> {Fmt(val)}

\* A block of output: its kind ("line", "scalars", "table", "json", "empty",
\* or "raise" for an exception), its name, and for a table the row count,
\* annotations, final columns and cleaned rows; strings holds the keys and
\* values written in its body.
Block(kind, name, strings) ==
    [kind |-> kind, name |-> name, nrows |-> 0, annotations |-> <<>>,
     columns |-> <<>>, rows |-> <<>>, strings |-> strings]

TableBlock(name, nrows, pre) ==
    IF pre.raises THEN Block("raise", name, {})
    ELSE [kind |-> "table", name |-> name, nrows |-> nrows,
          annotations |-> pre.annotations, columns |-> pre.final,
          rows |-> pre.cleaned_rows,
          strings |-> ToonFormatEncode(
                        Arr([i \in 1..Len(pre.cleaned_rows) |->
                               Obj(pre.cleaned_rows[i])]))]

\* The dict sub-items of array field af over all rows, each tagged with the
\* identity of its parent row.
SubItems(arr, af, id_col) ==
    Concat([i \in 1..Len(arr) |->
      LET fl        == Flatten(arr[i].o)
          parent_id == IF id_col # <<>>
                       THEN Fmt(Get(fl, id_col[1], Str("")))
                       ELSE ""
          id_name   == IF id_col # <<>> THEN id_col[1] ELSE <<"None">>
          arr_val   == Get(fl, af, Arr(<<>>))
          subs      == IF IsList(arr_val)
                       THEN SelectIn(arr_val.a,
                                     {x \in Range(arr_val.a) : IsDict(x)})
                       ELSE <<>>
      IN  [j \in 1..Len(subs) |->
             Update(<<Item(<<"_parent">> \o id_name, Str(parent_id))>>,
                    Flatten(subs[j].o))]])

\* The keys of a flat sub-item whose value is not a list.
SubScalarKeys(si) == {si[j].k : j \in {j \in 1..Len(si) : ~IsList(si[j].v)}}

\* A field becomes a sub-table when it has two or more sub-items with two or
\* more scalar keys in common.
IsSubTable(sub_items) ==
    /\ Len(sub_items) >= 2
    /\ Cardinality({k \in UNION {SubScalarKeys(sub_items[j]) :
                                    j \in 1..Len(sub_items)} :
                      \A j \in 1..Len(sub_items) :
                         k \in SubScalarKeys(sub_items[j])}) >= 2

\* render_table(name, arr, heuristics): the parent table block and one block
\* for each sub-table.
RenderTable(name, arr, heuristics) ==
    IF arr = <<>> THEN <<Block("empty", name, {})>>
    ELSE
      LET array_fields ==
              UNION { {k \in Range(Keys(Flatten(arr[i].o))) :
                         IsList(Get(Flatten(arr[i].o), k, Null))} :
                      i \in 1..Len(arr) }
          scalar_cols == OrderColumns(UnionColumns(arr))
          id_col      == FindIdentityColumn(scalar_cols, arr)
          fields      == Sorted(array_fields)
          sub_tables  == SelectIn(fields,
                            {af \in Range(fields) :
                               IsSubTable(SubItems(arr, af, id_col))})
      IN  <<TableBlock(name, Len(arr), PreprocessTable(arr, heuristics))>>
          \o [j \in 1..Len(sub_tables) |->
                LET sub_items == SubItems(arr, sub_tables[j], id_col)
                IN  TableBlock(name \o "." \o JoinWith(".", sub_tables[j]),
                               Len(sub_items),
                               PreprocessTable(
                                 [k \in 1..Len(sub_items) |-> Obj(sub_items[k])],
                                 heuristics))]

\* render_scalars(name, flat)
RenderScalars(name, flat) == Block("scalars", name, ToonFormatEncode(Obj(flat)))

\* The index suffix of an item name: "[0]", "[1]", ...
Indexed(name, i) == name \o "[" \o ToString(i - 1) \o "]"

\* condense(name, obj, heuristics): the blocks of a value.
RECURSIVE Condense(_, _, _)
CondenseArray(name, av, heuristics) ==
    IF IsHomogeneousArray(av) THEN RenderTable(name, av, heuristics)
    ELSE IF av # <<>> /\ IsDict(av[1])
    THEN Concat([i \in 1..Len(av) |-> Condense(Indexed(name, i), av[i], heuristics)])
    ELSE <<Block("json", name, JsonDumps(Arr(av)))>>

Condense(name, obj, heuristics) ==
    CASE Classify(obj) \in {"string", "number", "bool", "null"} ->
            <<Block("line", name, {Fmt(obj)})>>
      [] Classify(obj) = "object" ->
            LET fl      == Flatten(obj.o)
                scalars == SelectIn(fl, {e \in Range(fl) : ~IsList(e.v)})
                arrays  == SelectIn(fl, {e \in Range(fl) : IsList(e.v)})
            IN  (IF scalars # <<>> THEN <<RenderScalars(name, scalars)>> ELSE <<>>)
                \o Concat([i \in 1..Len(arrays) |->
                     CondenseArray(IF name # ""
                                   THEN name \o "." \o JoinWith(".", arrays[i].k)
                                   ELSE JoinWith(".", arrays[i].k),
                                   arrays[i].v.a, heuristics)])
      [] Classify(obj) = "array" -> CondenseArray(name, obj.a, heuristics)

\* condense_json(data, heuristics): the blocks joined into the text, or the
\* exception raised.
CondenseJson(data, heuristics) ==
    LET blocks == IF IsDict(data)
                  THEN Concat([i \in 1..Len(data.o) |->
                         Condense(JoinWith(".", data.o[i].k), data.o[i].v,
                                  heuristics)])
                  ELSE Condense("root", data, heuristics)
    IN  [raised |-> \E i \in 1..Len(blocks) : blocks[i].kind = "raise",
         blocks |-> blocks]

(***************************************************************************)
(* condenser.py: the inputs explored and the condense_json call            *)
(***************************************************************************)

\* The scalars of the inputs.
ScalarValues ==
    {Null, Bool(TRUE), Num(0), Num(7), Str("red"), Str("blue"), Str("caf<e9>")}

\* A dict element of a nested array.
SubItem(k) == Obj(<<Item(<<"k">>, Str(k)), Item(<<"w">>, Num(7))>>)

\* The nested array of a row: none, a list of scalars, one dict, two dicts.
TagsOptions ==
    { <<>>,
      <<Item(<<"tags">>, Arr(<<Str("green")>>))>>,
      <<Item(<<"tags">>, Arr(<<SubItem("pine")>>))>>,
      <<Item(<<"tags">>, Arr(<<SubItem("pine"), SubItem("oak")>>))>> }

\* The rows of the inputs: a name, a value and possibly a nested array.
RowValues ==
    { Obj(<<Item(<<"name">>, n), Item(<<"v">>, v)>> \o tags) :
        n \in {Str("red"), Str("blue")},
        v \in {Null, Num(0), Num(7)},
        tags \in TagsOptions }

\* Rows with a timestamp column: zone-aware, naive and unparseable strings.
TsRowValues ==
    { Obj(<<Item(<<"name">>, Str("red")), Item(<<"ts">>, Str(t))>>) :
        t \in {"2024-01-01T00:00:00Z", "2024-01-01T00:00:30+00:00",
               "2024-01-01T00:02:00Z", "2024-01-01T00:00:10",
               "2024-01-01T00:00:99"} }

\* The greatest number of elements of an input array.
MaxRows == 2

ArraysOf(values) == UNION {[1..n -> values] : n \in 1..MaxRows}

\* The parsed data handed to condense_json: a scalar, a list of scalars, a
\* list of rows, or a dict holding a scalar and a list of rows.
DataValues ==
    ScalarValues
    \cup {Arr(a) : a \in ArraysOf(ScalarValues)}
    \cup {Arr(a) : a \in ArraysOf(RowValues)}
    \cup {Arr(a) : a \in ArraysOf(TsRowValues)}
    \cup {Obj(<<Item(<<"count">>, Num(7)), Item(<<"items">>, Arr(a))>>) :
            a \in ArraysOf(RowValues)}

\* The heuristics explored: the defaults, every reduction off, a width cap,
\* mostly-zero elision at 50%.
HeuristicsValues ==
    { DefaultHeuristics,
      [DefaultHeuristics EXCEPT !.elide_all_zero = FALSE,
                                !.elide_all_null = FALSE,
                                !.elide_timestamps = FALSE,
                                !.elide_constants = FALSE,
                                !.group_tuples = FALSE],
      [DefaultHeuristics EXCEPT !.max_table_columns = 1],
      [DefaultHeuristics EXCEPT !.elide_mostly_zero_pct = 50] }

NoOutput == [raised |-> FALSE, blocks |-> <<>>]

IdleCondCall ==
    [data |-> Null, heuristics |-> DefaultHeuristics, done |-> FALSE,
     out |-> NoOutput]

CondIdle == condCall = IdleCondCall

\* A caller holds parsed data and heuristics; nothing is condensed yet.
CondInit ==
    \E data \in DataValues, h \in HeuristicsValues :
       condCall = [data |-> data, heuristics |-> h, done |-> FALSE,
                   out |-> NoOutput]

\* condense_json(data, heuristics)
CondenseJsonCall ==
    /\ ~condCall.done
    /\ condCall' = [condCall EXCEPT
                      !.done = TRUE,
                      !.out = CondenseJson(condCall.data, condCall.heuristics)]
    /\ UNCHANGED notCondVars

CondNext == CondenseJsonCall

(***************************************************************************)
(* Calls of preprocess_table on two-row tables.                            *)
(***************************************************************************)

\* A column of a two-row table: its key and the cell of each row; <<>> is a
\* row without the key.
Column(key, cell1, cell2) == [key |-> key, cells |-> <<cell1, cell2>>]

Absent(key) == Column(key, <<>>, <<>>)

\* The name column.
NameColumn == Column("Name", <<Str("red")>>, <<Str("blue")>>)

\* A second identifier column.
IdColumns ==
    { Absent("id"), Column("id", <<Num(1)>>, <<Num(2)>>) }

\* A column of zeros, of one zero, of the string "0.0", of nulls.
ZeroColumns ==
    { Absent("z"),
      Column("z", <<Num(0)>>, <<Num(0)>>),
      Column("z", <<Num(0)>>, <<Num(7)>>),
      Column("z", <<Str("0.0")>>, <<Num(7)>>),
      Column("z", <<Null>>, <<Null>>) }

\* The timestamp columns: none; one within 60 seconds; one constant; one
\* two minutes apart; a constant one followed by one within 60 seconds.
TsColumns ==
    { <<>>,
      <<Column("ts", <<Str("2024-01-01T00:00:00Z")>>,
                     <<Str("2024-01-01T00:00:30+00:00")>>)>>,
      <<Column("ts", <<Str("2024-01-01T00:00:00Z")>>,
                     <<Str("2024-01-01T00:00:00Z")>>)>>,
      <<Column("ts", <<Str("2024-01-01T00:00:00Z")>>,
                     <<Str("2024-01-01T00:02:00Z")>>)>>,
      <<Column("seen", <<Str("2024-01-01T00:00:30+00:00")>>,
                       <<Str("2024-01-01T00:00:30+00:00")>>),
        Column("ts", <<Str("2024-01-01T00:00:00Z")>>,
                     <<Str("2024-01-01T00:00:30+00:00")>>)>> }

\* The nested dict m of a row, from leaf keys and values.
Nested(keys, vals) ==
    <<Obj([j \in 1..Len(keys) |-> Item(<<keys[j]>>, vals[j])])>>

\* The nested dict column: three numbers; three numbers, one the same in
\* both rows; two numbers and a word; an id and two numbers; four numbers.
NestedColumns ==
    { Absent("m"),
      Column("m", Nested(<<"a", "b", "c">>, <<Num(1), Num(2), Num(3)>>),
                  Nested(<<"a", "b", "c">>, <<Num(4), Num(5), Num(6)>>)),
      Column("m", Nested(<<"a", "b", "c">>, <<Num(1), Num(2), Num(3)>>),
                  Nested(<<"a", "b", "c">>, <<Num(4), Num(5), Num(3)>>)),
      Column("m", Nested(<<"a", "b", "c">>, <<Num(1), Num(2), Str("x")>>),
                  Nested(<<"a", "b", "c">>, <<Num(4), Num(5), Str("y")>>)),
      Column("m", Nested(<<"id", "a", "b">>, <<Num(1), Num(2), Num(3)>>),
                  Nested(<<"id", "a", "b">>, <<Num(4), Num(5), Num(6)>>)),
      Column("m", Nested(<<"a", "b", "c", "d">>, <<Num(1), Num(2), Num(3), Num(4)>>),
                  Nested(<<"a", "b", "c", "d">>, <<Num(5), Num(6), Num(7), Num(8)>>)) }

\* Row i of the table of the given columns, in key order.
TableRow(columns, i) ==
    Obj(Concat([j \in 1..Len(columns) |->
                  IF columns[j].cells[i] = <<>> THEN <<>>
                  ELSE <<Item(<<columns[j].key>>, columns[j].cells[i][1])>>]))

TableOf(columns) == <<TableRow(columns, 1), TableRow(columns, 2)>>

\* The tables: the keys are first seen in the order z, m, Name, seen, ts, id.
TableValues ==
    { TableOf(<<z, m, NameColumn>> \o ts \o <<id>>) :
        z \in ZeroColumns, m \in NestedColumns,
        ts \in TsColumns, id \in IdColumns }

\* The on/off options of Heuristics: all on, all off, one off.
ReductionNames ==
    {"elide_all_zero", "elide_all_null", "elide_timestamps",
     "elide_constants", "group_tuples"}

Switches(on) ==
    [DefaultHeuristics EXCEPT !.elide_all_zero = "elide_all_zero" \in on,
                              !.elide_all_null = "elide_all_null" \in on,
                              !.elide_timestamps = "elide_timestamps" \in on,
                              !.elide_constants = "elide_constants" \in on,
                              !.group_tuples = "group_tuples" \in on]

SwitchValues ==
    {Switches(ReductionNames), Switches({})}
    \cup {Switches(ReductionNames \ {r}) : r \in ReductionNames}

\* The heuristics of the calls: the switches, with a width cap, a mostly-zero
\* threshold of 50% or 75%, or a smaller tuple size.
TableHeuristics ==
    SwitchValues
    \cup {[Switches(ReductionNames) EXCEPT !.max_table_columns = m] :
            m \in {1, 2}}
    \cup {[Switches({}) EXCEPT !.max_table_columns = m] : m \in {2, 4}}
    \cup {[Switches(ReductionNames) EXCEPT !.elide_mostly_zero_pct = p] :
            p \in {50, 75}}
    \cup {[h EXCEPT !.elide_mostly_zero_pct = 50] :
            h \in {Switches({}),
                   Switches(ReductionNames \ {"elide_all_zero"})}}
    \cup {[Switches(ReductionNames) EXCEPT !.max_tuple_size = 3],
          [Switches(ReductionNames) EXCEPT !.max_table_columns = 2,
                                           !.elide_mostly_zero_pct = 50]}

NoTable ==
    [annotations |-> <<>>, cleaned_rows |-> <<>>, final |-> <<>>,
     raises |-> FALSE]

IdleTableCall ==
    [arr |-> <<>>, heuristics |-> DefaultHeuristics, done |-> FALSE,
     out |-> NoTable]

TableIdle == tableCall = IdleTableCall

\* A caller holds a homogeneous array and heuristics.
TableInit ==
    \E arr \in TableValues, h \in TableHeuristics :
       tableCall = [arr |-> arr, heuristics |-> h, done |-> FALSE,
                    out |-> NoTable]

\* preprocess_table(name, arr, heuristics)
PreprocessTableCall ==
    /\ ~tableCall.done
    /\ tableCall' = [tableCall EXCEPT
                       !.done = TRUE,
                       !.out = PreprocessTable(tableCall.arr,
                                               tableCall.heuristics)]
    /\ UNCHANGED notTableVars

TableNext == PreprocessTableCall

\* The cells of a timestamp column: null, timestamps 0, 30, 60 and 120
\* seconds into the day, a string of the timestamp pattern that
\* datetime.fromisoformat rejects, a word and a number.
TsCells ==
    { Null, Str("2024-01-01T00:00:00Z"), Str("2024-01-01T00:00:30+00:00"),
      Str("2024-01-01T00:01:00Z"), Str("2024-01-01T00:02:00Z"),
      Str("2024-01-01T00:00:99"), Str("red"), Num(7) }

\* The greatest number of rows of a table with one timestamp column.
MaxTsRows == 3

\* The tables of one column ts.
TsTables ==
    UNION { [1..n -> {Obj(<<Item(<<"ts">>, v)>>) : v \in TsCells}] :
              n \in 1..MaxTsRows }

\* Heuristics for them: the timestamp reduction alone, every reduction but
\* the constants, every reduction but the timestamps.
TsHeuristics ==
    { Switches({"elide_timestamps"}),
      Switches(ReductionNames \ {"elide_constants"}),
      Switches(ReductionNames \ {"elide_timestamps"}) }

\* A caller holds a table with a timestamp column.
TsInit ==
    \E arr \in TsTables, h \in TsHeuristics :
       tableCall = [arr |-> arr, heuristics |-> h, done |-> FALSE,
                    out |-> NoTable]

\* Tables whose field x is a list in some rows and a scalar, null or
\* missing in others, next to a name column.
MixedCells == {<<Arr(<<Num(1), Num(2)>>)>>, <<Num(5)>>, <<Null>>, <<>>}

\* The greatest number of rows of such a table.
MaxMixedRows == 3

MixedRows ==
    {Obj(<<Item(<<"n">>, n)>> \o [j \in 1..Len(x) |-> Item(<<"x">>, x[j])]) :
       n \in {Str("red"), Str("blue")}, x \in MixedCells}

MixedTables == UNION { [1..n -> MixedRows] : n \in 1..MaxMixedRows }

MixedInit ==
    \E arr \in MixedTables, h \in {Switches(ReductionNames), Switches({})} :
       tableCall = [arr |-> arr, heuristics |-> h, done |-> FALSE,
                    out |-> NoTable]

(***************************************************************************)
(* Calls of flatten and of find_identity_column.                           *)
(***************************************************************************)

\* The keys of the objects flattened: a, b and the key "a.b" that holds a dot.
FlattenKeys == {<<"a">>, <<"b">>, <<"a", "b">>}

\* Their values: numbers, a list, and dicts (empty, one and two levels deep).
FlattenLeafValues == {Num(1), Num(2), Arr(<<Num(1)>>)}

FlattenValues ==
    FlattenLeafValues
    \cup {Obj(<<>>)}
    \cup {Obj(<<Item(<<"b">>, v)>>) : v \in FlattenLeafValues}
    \cup {Obj(<<Item(<<"a">>, Obj(<<Item(<<"b">>, Num(2))>>))>>)}

\* The greatest number of items of an object flattened.
MaxItemsFlat == 2

\* The objects: up to MaxItemsFlat items with distinct keys.
FlattenObjects ==
    UNION { {o \in [1..n -> {Item(k, v) : k \in FlattenKeys, v \in FlattenValues}] :
               \A i, j \in 1..n : o[i].k = o[j].k => i = j} :
            n \in 0..MaxItemsFlat }

\* The columns handed to find_identity_column.
IdentityColumnPool ==
    {<<"Name">>, <<"m", "name">>, <<"id">>, <<"m", "id">>, <<"uid">>, <<"z">>}

\* The greatest number of columns handed to find_identity_column.
MaxIdentityCols == 3

IdentityColumnLists ==
    UNION { {cl \in [1..n -> IdentityColumnPool] :
               \A i, j \in 1..n : cl[i] = cl[j] => i = j} :
            n \in 0..MaxIdentityCols }

\* The cells of a column in two rows: no value, one value, two values.
IdentityCells ==
    { <<Null, Null>>, <<Str("red"), Str("red")>>, <<Str("red"), Str("blue")>> }

\* The two rows of the given columns and cells, row by row.
IdentityRows(cl, cells) ==
    [r \in 1..2 |-> Obj([j \in 1..Len(cl) |-> Item(cl[j], cells[j][r])])]

NoFnCall == [fn |-> "none", args |-> <<>>, done |-> FALSE, out |-> <<>>]

FnIdle == fnCall = NoFnCall

\* A caller holds an object to flatten, or columns with or without rows.
FnInit ==
    \/ \E obj \in FlattenObjects :
         fnCall = [fn |-> "flatten", args |-> <<obj>>, done |-> FALSE,
                   out |-> <<>>]
    \/ \E cl \in IdentityColumnLists :
         \/ fnCall = [fn |-> "find_identity_column", args |-> <<cl>>,
                      done |-> FALSE, out |-> <<>>]
         \/ \E cells \in [1..Len(cl) -> IdentityCells] :
              fnCall = [fn |-> "find_identity_column",
                        args |-> <<cl, IdentityRows(cl, cells)>>,
                        done |-> FALSE, out |-> <<>>]

\* flatten(obj)
FlattenCall ==
    /\ fnCall.fn = "flatten"
    /\ ~fnCall.done
    /\ fnCall' = [fnCall EXCEPT !.done = TRUE,
                                !.out = Flatten(fnCall.args[1])]
    /\ UNCHANGED notFnVars

\* find_identity_column(cols) and find_identity_column(cols, arr)
FindIdentityColumnCall ==
    /\ fnCall.fn = "find_identity_column"
    /\ ~fnCall.done
    /\ fnCall' = [fnCall EXCEPT
                    !.done = TRUE,
                    !.out = IF Len(fnCall.args) = 1
                            THEN FindIdentityColumnNoRows(fnCall.args[1])
                            ELSE FindIdentityColumn(fnCall.args[1],
                                                    fnCall.args[2])]
    /\ UNCHANGED notFnVars

FnNext == FlattenCall \/ FindIdentityColumnCall

(***************************************************************************)
(* Multi-upstream startup: the registration loop of _run_multi_upstream.   *)
(***************************************************************************)

\* The server names of config.servers and the tool names the upstreams list.
\* Names are sequences of tokens, "_" a token of its own: the server a_b is
\* <<"a", "_", "b">>.
UpstreamServerNames == {<<"a">>, <<"a", "_", "b">>, ServerK8s}

UpstreamToolNames ==
    {ToolGet, <<"b", "_", "get">>, ServerK8s \o <<"_">> \o ToolGet}

\* The greatest number of tools an upstream lists.
MaxUpstreamTools == 2

\* What client.list_tools() returns: tools with distinct names.
UpstreamToolLists ==
    UNION { {l \in [1..n -> UpstreamToolNames] :
               \A i, j \in 1..n : l[i] = l[j] => i = j} :
            n \in 0..MaxUpstreamTools }

\* A server of config.servers with what its upstream lists.  tools_all stands
\* for tools = None.
UpstreamServers ==
    [ name      : UpstreamServerNames,
      mcp_tools : UpstreamToolLists,
      tools_all : {TRUE},
      tools     : {{}} ]
    \cup
    [ name      : UpstreamServerNames,
      mcp_tools : UpstreamToolLists,
      tools_all : {FALSE},
      tools     : {{ToolGet}} ]

\* config.servers: two servers under distinct names, in the order of the dict.
UpstreamConfigs ==
    {sv \in [1..2 -> UpstreamServers] : sv[1].name # sv[2].name}

NoCollision == [raised |-> FALSE, tool |-> <<>>, existing |-> <<>>,
                server |-> <<>>]

\* ValueError("Tool name collision: '<tool>' is provided by both '<existing>'
\* and '<server>'. ...")
CollisionError(tool, existing, server) ==
    [raised |-> TRUE, tool |-> tool, existing |-> existing, server |-> server]

NoStartup ==
    [servers |-> <<>>, prefix_tools |-> FALSE, phase |-> "idle", si |-> 0,
     ti |-> 0, tool_server_map |-> <<>>, added |-> <<>>,
     error |-> NoCollision, resolved |-> <<>>]

StartupIdle == startup = NoStartup

\* _run_multi_upstream(config, metrics) up to the start of lifespan.
StartupInit ==
    \E sv \in UpstreamConfigs, prefix \in BOOLEAN :
      startup = [servers |-> sv, prefix_tools |-> prefix, phase |-> "list",
                 si |-> 1, ti |-> 0, tool_server_map |-> <<>>,
                 added |-> <<>>, error |-> NoCollision, resolved |-> <<>>]

\* The server and the tool the loops stand at.
CurrentServer == startup.servers[startup.si]

CurrentTool == CurrentServer.mcp_tools[startup.ti]

\* The allowlist filter: the tool is skipped.
FilteredOut(srv_cfg, tool) == ~srv_cfg.tools_all /\ tool \notin srv_cfg.tools

\* The name the tool is registered under.
RegisteredName(prefix_tools, server_name, tool) ==
    IF prefix_tools THEN server_name \o <<"_">> \o tool ELSE tool

\* The collision detection: only when prefixing is disabled.
CollidesNever(prefix_tools, map, registered_name) == FALSE

Collides(prefix_tools, map, registered_name) ==
    ~prefix_tools /\ registered_name \in DOMAIN map

\* tool_server_map[registered_name] = server_name
MapSet(map, key, value) ==
    [k \in DOMAIN map \cup {key} |-> IF k = key THEN value ELSE map[k]]

\* The position after the current tool: the next tool of the server, or the
\* next server.
AfterTool(st) ==
    IF st.ti < Len(st.servers[st.si].mcp_tools)
    THEN [st EXCEPT !.ti = st.ti + 1]
    ELSE [st EXCEPT !.si = st.si + 1, !.ti = 0, !.phase = "list"]

\* for server_name, srv_cfg in config.servers.items(): client.list_tools()
ListTools ==
    /\ startup.phase = "list"
    /\ startup.si <= Len(startup.servers)
    /\ startup' = IF CurrentServer.mcp_tools = <<>>
                  THEN [startup EXCEPT !.si = startup.si + 1]
                  ELSE [startup EXCEPT !.phase = "loop", !.ti = 1]
    /\ UNCHANGED notStartupVars

\* One iteration of for mcp_tool in mcp_tools: the tool is not allowed.
SkipTool ==
    /\ startup.phase = "loop"
    /\ FilteredOut(CurrentServer, CurrentTool)
    /\ startup' = AfterTool(startup)
    /\ UNCHANGED notStartupVars

\* One iteration: the name is taken, startup fails with ValueError.
RaiseCollision ==
    /\ startup.phase = "loop"
    /\ ~FilteredOut(CurrentServer, CurrentTool)
    /\ LET name == RegisteredName(startup.prefix_tools, CurrentServer.name,
                                  CurrentTool)
       IN  /\ Collides(startup.prefix_tools, startup.tool_server_map, name)
           /\ startup' =
                [startup EXCEPT
                   !.phase = "failed",
                   !.error = CollisionError(name,
                                            startup.tool_server_map[name],
                                            CurrentServer.name)]
    /\ UNCHANGED notStartupVars

\* One iteration: server.add_tool and the entry of tool_server_map.
AddTool ==
    /\ startup.phase = "loop"
    /\ ~FilteredOut(CurrentServer, CurrentTool)
    /\ LET name == RegisteredName(startup.prefix_tools, CurrentServer.name,
                                  CurrentTool)
       IN  /\ ~Collides(startup.prefix_tools, startup.tool_server_map, name)
           /\ startup' =
                AfterTool(
                  [startup EXCEPT
                     !.added = Append(@, [name   |-> name,
                                          server |-> CurrentServer.name,
                                          tool   |-> CurrentTool]),
                     !.tool_server_map = MapSet(@, name, CurrentServer.name)])
    /\ UNCHANGED notStartupVars

\* The loop over the servers is over: lifespan yields, the proxy serves.
Yield ==
    /\ startup.phase = "list"
    /\ startup.si > Len(startup.servers)
    /\ startup' = [startup EXCEPT !.phase = "serving"]
    /\ UNCHANGED notStartupVars

\* The middleware of the running proxy.
StartupMiddleware ==
    [ map_is_none     |-> FALSE,
      tool_server_map |-> startup.tool_server_map,
      server_configs  |-> <<>> ]

\* The middleware resolves a registered tool: _resolve_server_name and
\* _base_tool_name.
ResolveRegistered ==
    /\ startup.phase = "serving"
    /\ \E name \in DOMAIN startup.tool_server_map :
         /\ \A i \in 1..Len(startup.resolved) : startup.resolved[i].name # name
         /\ startup' =
              [startup EXCEPT
                 !.resolved =
                   Append(@, [name   |-> name,
                              server |-> ResolveServerName(StartupMiddleware,
                                                           name),
                              base   |-> BaseToolName(StartupMiddleware,
                                                      name)])]
    /\ UNCHANGED notStartupVars

StartupNext ==
    \/ ListTools
    \/ SkipTool
    \/ RaiseCollision
    \/ AddTool
    \/ Yield
    \/ ResolveRegistered

(***************************************************************************)
(* CondenserMiddleware.on_list_tools.                                      *)
(***************************************************************************)

\* CondenserMiddleware._should_process
ShouldProcessNoFallback(m, tool_name, cfg) ==
    /\ cfg.condense
    /\ \/ BaseToolName(m, tool_name) \in cfg.toon_only_tools
       \/ cfg.tools_all
       \/ BaseToolName(m, tool_name) \in cfg.tools

ShouldProcess(m, tool_name, cfg) ==
    IF ~cfg.condense THEN FALSE
    ELSE IF BaseToolName(m, tool_name) \in cfg.toon_only_tools THEN TRUE
    ELSE IF cfg.tools_all \/ BaseToolName(m, tool_name) \in cfg.tools THEN TRUE
    ELSE IF cfg.toon_fallback THEN TRUE
    ELSE FALSE

\* The server configurations listed: every combination of the options the
\* mode depends on, the others at their defaults.
ListedConfigs ==
    {cfg \in ServerConfigs :
       /\ cfg.min_token_threshold = 0
       /\ ~cfg.revert_if_larger
       /\ cfg.max_token_limit = 0
       /\ cfg.tool_token_limits = <<>>
       /\ cfg.heuristics = {}
       /\ cfg.tool_heuristics = <<>>}

\* output_schema of a tool: a schema, or None.
OutputSchemas == {"schema", "none"}

\* The greatest number of tools an upstream lists to on_list_tools.
MaxListedTools == 2

\* What call_next returns: tools under distinct names.
ListedTools(m) ==
    UNION { {l \in [1..n -> [name : CallableTools(m) \cup {ToolOther},
                             output_schema : OutputSchemas]] :
               \A i, j \in 1..n : l[i].name = l[j].name => i = j} :
            n \in 1..MaxListedTools }

NoListCall == [mw |-> <<>>, tools |-> <<>>, done |-> FALSE, out |-> <<>>]

ListIdle == listCall = NoListCall

ListInit ==
    \E cfg \in ListedConfigs :
      \E m \in Middlewares(cfg) :
        \E tools \in ListedTools(m) :
          listCall = [mw |-> m, tools |-> tools, done |-> FALSE, out |-> <<>>]

\* The loop body of on_list_tools for one tool.
StripSchema(m, tool) ==
    LET cfg == ResolveServerConfig(m, tool.name)
    IN  IF cfg # <<>> /\ ShouldProcess(m, tool.name, cfg[1])
        THEN [tool EXCEPT !.output_schema = "none"]
        ELSE tool

\* CondenserMiddleware.on_list_tools
OnListTools ==
    /\ ~listCall.done
    /\ listCall.tools # <<>>
    /\ listCall' = [listCall EXCEPT
                      !.done = TRUE,
                      !.out = [i \in 1..Len(listCall.tools) |->
                                 StripSchema(listCall.mw, listCall.tools[i])]]
    /\ UNCHANGED notListVars

ListNext == OnListTools

(***************************************************************************)
(* The specifications.                                                     *)
(***************************************************************************)

InitParse == ParseInit /\ TruncIdle /\ GovIdle /\ CondIdle /\ TableIdle
    /\ FnIdle
    /\ StartupIdle /\ ListIdle

SpecParse == InitParse /\ [][ParseNext]_vars

InitTrunc == ParseInit /\ TruncInit /\ GovIdle /\ CondIdle /\ TableIdle
    /\ FnIdle
    /\ StartupIdle /\ ListIdle

TruncNext == Truncate

SpecTrunc == InitTrunc /\ [][TruncNext]_vars

InitGov == ParseInit /\ TruncIdle /\ GovInit /\ CondIdle /\ TableIdle
    /\ FnIdle
    /\ StartupIdle /\ ListIdle

SpecGov == InitGov /\ [][GovNext]_vars

InitCond == ParseInit /\ TruncIdle /\ GovIdle /\ CondInit /\ TableIdle
    /\ FnIdle
    /\ StartupIdle /\ ListIdle

SpecCond == InitCond /\ [][CondNext]_vars

InitTable == ParseInit /\ TruncIdle /\ GovIdle /\ CondIdle /\ TableInit
    /\ FnIdle
    /\ StartupIdle /\ ListIdle

SpecTable == InitTable /\ [][TableNext]_vars

InitTs == ParseInit /\ TruncIdle /\ GovIdle /\ CondIdle /\ TsInit
    /\ FnIdle
    /\ StartupIdle /\ ListIdle

SpecTs == InitTs /\ [][TableNext]_vars

InitMixed == ParseInit /\ TruncIdle /\ GovIdle /\ CondIdle /\ MixedInit
    /\ FnIdle /\ StartupIdle /\ ListIdle

SpecMixed == InitMixed /\ [][TableNext]_vars

InitFn == ParseInit /\ TruncIdle /\ GovIdle /\ CondIdle /\ TableIdle
    /\ FnInit
    /\ StartupIdle /\ ListIdle

SpecFn == InitFn /\ [][FnNext]_vars

InitStartup == ParseInit /\ TruncIdle /\ GovIdle /\ CondIdle /\ TableIdle
    /\ FnIdle /\ StartupInit /\ ListIdle

SpecStartup == InitStartup /\ [][StartupNext]_vars

InitList == ParseInit /\ TruncIdle /\ GovIdle /\ CondIdle /\ TableIdle
    /\ FnIdle /\ StartupIdle /\ ListInit

SpecList == InitList /\ [][ListNext]_vars

(***************************************************************************)
(* Claims about the parser registry.                                       *)
(***************************************************************************)

\* The ids of the parsers of s up to and including the first that accepts
\* text (all of s when none accepts).
RECURSIVE TriedUntilAccept(_, _)
TriedUntilAccept(s, text) ==
    IF s = <<>> THEN <<>>
    ELSE IF TryParse(Head(s), text) THEN <<Head(s).id>>
    ELSE <<Head(s).id>> \o TriedUntilAccept(Tail(s), text)

AnyAccepts(s, text) == \E i \in 1..Len(s) : TryParse(s[i], text)

\* The first parser of s that accepts text (s has one).
FirstAccepting(s, text) ==
    s[CHOOSE i \in 1..Len(s) :
        /\ TryParse(s[i], text)
        /\ \A j \in 1..(i - 1) : ~TryParse(s[j], text)]

\* s without its element at index h.
WithoutIndex(s, h) == SubSeq(s, 1, h - 1) \o SubSeq(s, h + 1, Len(s))

HintNamesParser(reg, hint) ==
    hint # NoHint /\ \E i \in 1..Len(reg) : reg[i].name = hint

\* parse_input without a hint: the scan the documentation describes.
PlainScanOutcome(reg, text, res) ==
    /\ res.tried = TriedUntilAccept(reg, text)
    /\ res.ok = AnyAccepts(reg, text)
    /\ res.ok =>
         /\ res.by = FirstAccepting(reg, text).id
         /\ res.name = FirstAccepting(reg, text).name
         /\ res.normalized =
              IF FirstAccepting(reg, text).norm THEN <<res.by>> ELSE <<>>
    /\ ~res.ok => res.normalized = <<>>

\* C9 (as claimed): with a hint naming a registered parser, that parser is
\* tried first and its acceptance is returned even when an earlier parser
\* would accept; when it rejects, the remaining parsers (all the others) are
\* tried in registry order and the hinted parser is not tried again; a hint
\* naming no registered parser behaves exactly like no hint.
C9_HintFallbackAsClaimed ==
    parseCall.done /\ parseCall.hint # NoHint =>
        LET text == parseCall.text
            hint == parseCall.hint
            res  == parseCall.res
            h    == CHOOSE i \in 0..Len(registry) :
                       IF HintNamesParser(registry, hint)
                       THEN /\ i > 0
                            /\ registry[i].name = hint
                            /\ \A j \in 1..(i - 1) : registry[j].name # hint
                       ELSE i = 0
        IN  IF h = 0
            THEN res = ParseInput(registry, text, NoHint)
            ELSE /\ res.tried # <<>>
                 /\ res.tried[1] = registry[h].id
                 /\ TryParse(registry[h], text) =>
                        /\ res.ok
                        /\ res.by = registry[h].id
                        /\ res.tried = <<registry[h].id>>
                 /\ ~TryParse(registry[h], text) =>
                        LET others == WithoutIndex(registry, h)
                        IN  /\ Tail(res.tried) = TriedUntilAccept(others, text)
                            /\ res.ok = AnyAccepts(others, text)
                            /\ res.ok =>
                                 res.by = FirstAccepting(others, text).id

\* C9: the hinted parser is tried first and wins when it accepts, and is never
\* tried a second time (the part of the claim that holds for every registry).
C9_HintedFirstAndOnce ==
    parseCall.done /\ HintNamesParser(registry, parseCall.hint) =>
        LET res == parseCall.res
            h   == HintIndex(registry, parseCall.hint)
        IN  /\ res.tried # <<>>
            /\ res.tried[1] = registry[h].id
            /\ \A i \in 2..Len(res.tried) : res.tried[i] # registry[h].id
            /\ TryParse(registry[h], parseCall.text) =>
                   res.ok /\ res.by = registry[h].id

\* C9 witness: a hinted call where the hinted parser rejects, another parser
\* of the same name is registered, and only that one accepts the text.
C9_Witness ==
    /\ parseCall.done
    /\ HintNamesParser(registry, parseCall.hint)
    /\ ~TryParse(registry[HintIndex(registry, parseCall.hint)], parseCall.text)
    /\ \E i \in 1..Len(registry) :
          /\ i # HintIndex(registry, parseCall.hint)
          /\ registry[i].name = parseCall.hint
          /\ TryParse(registry[i], parseCall.text)
    /\ ~parseCall.res.ok

\* The registry keeps the relative order of the parsers registered before.
KeepsRelativeOrder ==
    regArg.done =>
        \E k \in 1..Len(registry) :
            /\ registry[k] = regArg.parser
            /\ WithoutIndex(registry, k) = regPrev

\* C10 (as claimed): without a hint the first accepting parser in registry
\* order decides, only its normalize is applied, once, and ValueError is
\* raised iff every parser rejects; the built-in order is json, yaml, csv,
\* xml; register_parser appends without priority and inserts at index i with
\* priority i, keeping the relative order of the parsers already registered.
C10_RegistryOrderAsClaimed ==
    /\ parseCall.done /\ parseCall.hint = NoHint =>
           PlainScanOutcome(registry, parseCall.text, parseCall.res)
    /\ ~regArg.done =>
           [i \in 1..Len(registry) |-> registry[i].name]
               = <<"json", "yaml", "csv", "xml">>
    /\ KeepsRelativeOrder
    /\ regArg.done /\ regArg.priority = NoPriority =>
           registry = Append(regPrev, regArg.parser)
    /\ regArg.done /\ regArg.priority # NoPriority =>
           /\ regArg.priority[1] + 1 \in 1..Len(registry)
           /\ registry[regArg.priority[1] + 1] = regArg.parser

\* C10 (amended): as claimed, except that priority i inserts at index i only
\* for 0 <= i <= the length of the registry; a larger priority appends at the
\* end and a negative priority i inserts at index max(length + i, 0).
C10_RegistryOrder ==
    /\ parseCall.done /\ parseCall.hint = NoHint =>
           PlainScanOutcome(registry, parseCall.text, parseCall.res)
    /\ ~regArg.done =>
           [i \in 1..Len(registry) |-> registry[i].name]
               = <<"json", "yaml", "csv", "xml">>
    /\ KeepsRelativeOrder
    /\ regArg.done /\ regArg.priority = NoPriority =>
           registry = Append(regPrev, regArg.parser)
    /\ regArg.done /\ regArg.priority # NoPriority =>
           LET i == regArg.priority[1]
               n == Len(regPrev)
           IN  /\ i \in 0..n => registry[i + 1] = regArg.parser
               /\ i > n    => registry[n + 1] = regArg.parser
               /\ i < 0    => registry[Max2(n + i, 0) + 1] = regArg.parser

\* C10 witness: a parser was inserted with an integer priority, and a call
\* without hint was decided by a parser that is not the first of the registry.
C10_Witness ==
    /\ regArg.done
    /\ regArg.priority # NoPriority
    /\ parseCall.done
    /\ parseCall.hint = NoHint
    /\ parseCall.res.ok
    /\ Len(parseCall.res.tried) > 1
    /\ parseCall.res.normalized # <<>>

\* C28 as stated: for every registry reached through register_parser and
\* every text and hint, parse_input with the hint raises ValueError if and
\* only if parse_input without hint raises.
C28_HintKeepsSuccessAsClaimed ==
    parseCall.done =>
        (parseCall.res.ok <=>
           ParseInput(registry, parseCall.text, NoHint).ok)

(***************************************************************************)
(* Claims about truncate_to_token_limit.                                   *)
(***************************************************************************)

\* The slack the tests allow above the limit (60 tokens at a limit of 50).
TestMargin == 10

\* Truncation is a no-op when the text is within the limit or the limit is off.
TruncNoOp ==
    truncCall.done /\
        (truncCall.limit <= 0 \/ CountTokens(truncCall.text) <= truncCall.limit)
    => truncCall.out = truncCall.text

CallCfg == ResolveServerConfig(mw, call.tool_name)[1]

CallBase == BaseToolName(mw, call.tool_name)

\* The _condense_item calls of the call.
LogEntries == {call.res.log[i] : i \in 1..Len(call.res.log)}

\* The text of the logged item parses; its item is as the upstream sent it
\* when the first loop is over.
Parses(e) == TextAccepts(e.text) # {}

LeftUnchanged(e) == call.res.after_condense[e.index].text = e.text

IsRequest(x) == x.kind = "request"

\* C2: a Text item that parses and is not skipped by the threshold gets its
\* mode by strict precedence on the base tool name: toon_only when the tool is
\* in toon_only_tools (also when it is in tools), else condense when tools is
\* unset or holds the tool, else toon_fallback when toon_fallback is on, else
\* passthrough (None returned, text unchanged); a returned text carries that
\* mode and its encoding, and no other mode is returned.
C2_ModePrecedence ==
    call.res.governed =>
      \A e \in LogEntries :
        (Parses(e) /\ e.res.mode # "skipped" /\ ~e.res.raised) =>
          LET toon_only == CallBase \in CallCfg.toon_only_tools
              condense  == CallCfg.tools_all \/ CallBase \in CallCfg.tools
              fallback  == CallCfg.toon_fallback
          IN  /\ toon_only => e.res.mode \in {"toon_only", "reverted"}
              /\ (~toon_only /\ condense) =>
                    e.res.mode \in {"condense", "reverted"}
              /\ (~toon_only /\ ~condense /\ fallback) =>
                    e.res.mode \in {"toon_fallback", "reverted"}
              /\ (~toon_only /\ ~condense /\ ~fallback) =>
                    /\ e.res.mode = "passthrough"
                    /\ ~e.res.rewritten
                    /\ LeftUnchanged(e)
              /\ e.res.rewritten =>
                    /\ e.res.mode \in {"toon_only", "condense", "toon_fallback"}
                    /\ e.res.text = IF e.res.mode = "condense"
                                    THEN CondenseText(e.text)
                                    ELSE ToonEncode(e.text)
              /\ e.res.mode = "reverted" => CallCfg.revert_if_larger

\* A tool listed in both toon_only_tools and tools had an item rewritten.
C2_Witness ==
    /\ call.res.governed
    /\ CallBase \in CallCfg.toon_only_tools
    /\ CallBase \in CallCfg.tools
    /\ \E e \in LogEntries : e.res.rewritten /\ e.res.mode = "toon_only"

\* C3: for a text no registered parser accepts, _condense_item returns None
\* without raising, the item text stays as it was and exactly one request is
\* counted, with mode passthrough, whatever threshold, tool lists, revert flag
\* and heuristics are configured.
C3_ParseFailurePassthrough ==
    call.res.governed =>
      \A e \in LogEntries :
        ~Parses(e) =>
          /\ ~e.res.raised
          /\ ~e.res.rewritten
          /\ LeftUnchanged(e)
          /\ SelectSeq(e.res.metrics, IsRequest) = <<RequestMetric("passthrough")>>
          /\ Len(e.res.metrics) = 1

\* An unparseable item went through a governor with a threshold, the revert
\* flag and an invalid heuristics option.
C3_Witness ==
    /\ call.res.governed
    /\ CallCfg.min_token_threshold > 0
    /\ CallCfg.revert_if_larger
    /\ ~(CallCfg.heuristics \subseteq HeuristicsFields)
    /\ CallBase \in CallCfg.toon_only_tools
    /\ \E e \in LogEntries : ~Parses(e) /\ ~e.res.raised

\* C4: a structured Text item is skipped (text unchanged, mode skipped
\* recorded, nothing condensed or encoded) exactly when min_token_threshold is
\* positive and the item's token count is strictly below it.
C4_ThresholdSkip ==
    call.res.governed =>
      \A e \in LogEntries :
        Parses(e) =>
          /\ (e.res.mode = "skipped") <=>
                (/\ CallCfg.min_token_threshold > 0
                 /\ CountTokens(e.text) < CallCfg.min_token_threshold)
          /\ e.res.mode = "skipped" =>
                /\ ~e.res.raised
                /\ ~e.res.rewritten
                /\ LeftUnchanged(e)
                /\ e.res.metrics = <<RequestMetric("skipped")>>

\* One call skipped an item below the threshold, though its condensing would
\* have failed, and did not skip an item of exactly the threshold.
C4_Witness ==
    /\ call.res.governed
    /\ \E e \in LogEntries :
         /\ e.res.mode = "skipped"
         /\ UpstreamTexts[e.text.src].cond_raises
         /\ CountTokens(e.text) = CallCfg.min_token_threshold - 1
    /\ \E e \in LogEntries :
         /\ Parses(e)
         /\ CountTokens(e.text) = CallCfg.min_token_threshold
         /\ e.res.mode # "skipped"

RewrittenItems ==
    {i \in 1..Len(call.res.result.content) :
        /\ call.res.result.content[i].type = "text"
        /\ call.res.result.content[i].text # call.upstream.content[i].text}

\* C6: when the returned envelope holds a Text item whose text differs from
\* what the upstream returned, structured_content is cleared; when no Text
\* item was rewritten, structured_content is as the upstream sent it.
C6_StructuredClearedAsClaimed ==
    call.res.outcome = "returned" =>
      /\ RewrittenItems # {} => call.res.result.structured_content = "none"
      /\ RewrittenItems = {} =>
            call.res.result.structured_content = call.upstream.structured_content

\* C7: when the effective limit of the call (the tool_token_limits entry of
\* the base tool name, else max_token_limit) is positive, every Text item of
\* the returned envelope that exceeded the limit has been truncated, condensed
\* or not.
C7_TokenCapAsClaimed ==
    (call.res.outcome = "returned" /\ ResolveServerConfig(mw, call.tool_name) # <<>>) =>
      LET limit == IF CallBase \in DOMAIN CallCfg.tool_token_limits
                   THEN CallCfg.tool_token_limits[CallBase]
                   ELSE CallCfg.max_token_limit
      IN  limit > 0 =>
            \A i \in 1..Len(call.res.result.content) :
              call.res.result.content[i].type = "text" =>
                LET before == call.res.after_condense[i].text
                IN  CountTokens(before) > limit =>
                      call.res.result.content[i].text =
                          TruncateToTokenLimit(before, limit)

\* The merged heuristics of the call's tool name an unknown option.
InvalidMerged ==
    ~((CallCfg.heuristics \cup
       (IF CallBase \in DOMAIN CallCfg.tool_heuristics
        THEN CallCfg.tool_heuristics[CallBase] ELSE {}))
      \subseteq HeuristicsFields)

RaisedTypeError(e) ==
    /\ e.res.raised
    /\ ~e.res.rewritten
    /\ e.res.metrics = <<>>
    /\ e.res.error.type = "TypeError"
    /\ e.res.error.valid_keys = HeuristicsFields

\* C11 as stated: with an unknown option name in the merged heuristics of a
\* tool, every _condense_item call on a Text item of that tool raises an error
\* listing the valid option names and returns neither a mode nor a text.
C11_InvalidHeuristicsAsClaimed ==
    (call.res.governed /\ InvalidMerged) =>
      \A e \in LogEntries : RaisedTypeError(e)

\* C11: with an unknown option name in the merged heuristics (server and
\* tool options), every _condense_item call on a Text item that parses and is
\* not below the threshold raises the TypeError listing the valid option
\* names, returns neither a mode nor a text, and the tool call fails; an item
\* that does not parse or is below the threshold is passed through or skipped
\* without error.  With valid merged heuristics no such TypeError is raised.
C11_InvalidHeuristics ==
    call.res.governed =>
      \A e \in LogEntries :
        /\ (InvalidMerged /\ Parses(e) /\
            ~(CallCfg.min_token_threshold > 0 /\
              CountTokens(e.text) < CallCfg.min_token_threshold)) =>
              (RaisedTypeError(e) /\ call.res.outcome = "raised")
        /\ (InvalidMerged /\ ~Parses(e)) =>
              (~e.res.raised /\ e.res.mode = "passthrough")
        /\ (InvalidMerged /\ Parses(e) /\
            CallCfg.min_token_threshold > 0 /\
            CountTokens(e.text) < CallCfg.min_token_threshold) =>
              (~e.res.raised /\ e.res.mode = "skipped")
        /\ ~InvalidMerged => e.res.error.type # "TypeError"

\* A toon_only tool whose only unknown option is a tool-level one: an
\* unparseable item passed through, then a parseable item raised.
C11_Witness ==
    /\ call.res.governed
    /\ CallCfg.heuristics = {}
    /\ CallBase \in CallCfg.toon_only_tools
    /\ InvalidMerged
    /\ \E e \in LogEntries : ~Parses(e) /\ e.res.mode = "passthrough"
    /\ \E e \in LogEntries : RaisedTypeError(e)

\* C12 as stated: when condensing or encoding a Text item fails with an
\* internal error, on_call_tool still returns the tool result, the failing
\* item keeps its original text and the other items are processed normally.
C12_FailSafeAsClaimed ==
    (call.res.governed /\
     \E e \in LogEntries : e.res.raised /\ e.res.error.type = "internal") =>
      /\ call.res.outcome = "returned"
      /\ \A e \in LogEntries :
           e.res.raised =>
             call.res.after_condense[e.index].text = e.text

(***************************************************************************)
(* Claims about the condenser.                                             *)
(***************************************************************************)

\* The scalars of a value, each with the column it belongs to: its dotted key
\* inside the nearest enclosing dict element of a list (a scalar element of a
\* list belongs to the list's column).
RECURSIVE Leaves(_, _)
Leaves(val, col) ==
    CASE val.t = "array"  ->
            UNION {IF IsDict(val.a[i]) THEN Leaves(val.a[i], <<>>)
                   ELSE Leaves(val.a[i], col) : i \in 1..Len(val.a)}
      [] val.t = "object" ->
            UNION {Leaves(val.o[i].v, col \o val.o[i].k) : i \in 1..Len(val.o)}
      [] OTHER -> {[col |-> col, v |-> val]}

\* The strings written in the output: the bodies of the blocks and the values
\* quoted by annotations.  The scalars of the inputs are chosen so that none
\* is part of another string of the output, which makes "appears in the text"
\* membership here.
OutStrings(out) ==
    UNION {out.blocks[i].strings
           \cup UNION {Range(out.blocks[i].annotations[j].values) :
                         j \in 1..Len(out.blocks[i].annotations)} :
           i \in 1..Len(out.blocks)}

\* The columns named by an elision annotation of the output.
AnnotatedColumns(out) ==
    UNION {UNION {Range(out.blocks[i].annotations[j].cols) :
                    j \in 1..Len(out.blocks[i].annotations)} :
           i \in 1..Len(out.blocks)}

Accounted(leaf, out) ==
    \/ Fmt(leaf.v) = ""
    \/ Fmt(leaf.v) \in OutStrings(out)
    \/ leaf.col \in AnnotatedColumns(out)

\* C1: every scalar of the parsed value, wherever it sits (top-level scalar,
\* object field, table cell, element or field of an array nested in a row),
\* belongs to a column named by an elision annotation or has its formatted
\* form in the text returned by condense_json, for every Heuristics.
C1_NoValueLostAsClaimed ==
    (condCall.done /\ ~condCall.out.raised) =>
      \A leaf \in Leaves(condCall.data, <<>>) : Accounted(leaf, condCall.out)

\* C13 as stated: for every value a parser can produce and every valid
\* Heuristics, condense_json returns a text and does not raise.
C13_NeverRaisesAsClaimed ==
    condCall.done => ~condCall.out.raised

(***************************************************************************)
(* Claims about preprocess_table.                                          *)
(***************************************************************************)

TArr == tableCall.arr

TH == tableCall.heuristics

TOut == tableCall.out

\* The ordered columns of the table and what analyze_columns finds in them.
TCols == OrderColumns(UnionColumns(TArr))

TInfo == [c \in Range(TCols) |-> ColInfo(TArr, c)]

\* The share of "0" and empty cells among the formatted cells of a column, in
\* percent of the rows, is at least p.
ZeroShareAtLeast(fmted, p) ==
    Cardinality({i \in 1..Len(fmted) : fmted[i] \in {"0", ""}}) * 100
      >= p * Len(fmted)

\* The reductions, in the order of the claim, that are enabled and for which
\* a column of the given analysis qualifies.
QualifiesFor(ci) ==
    {k \in 1..5 :
       \/ k = 1 /\ TH.elide_all_zero /\ ci.is_all_zero /\ ~ci.is_all_null
       \/ k = 2 /\ TH.elide_all_null /\ ci.is_all_null
       \/ k = 3 /\ TH.elide_mostly_zero_pct > 0
                /\ ~ci.is_all_zero /\ ~ci.is_all_null
                /\ ZeroShareAtLeast(ci.fmted, TH.elide_mostly_zero_pct)
       \/ k = 4 /\ TH.elide_timestamps /\ ci.ts_clustered
       \/ k = 5 /\ TH.elide_constants /\ ci.is_constant
                /\ ~ci.is_all_zero /\ ~ci.is_all_null}

\* The earliest reduction a column qualifies for; 0 when there is none.
EarliestStep(ci) ==
    IF QualifiesFor(ci) = {} THEN 0
    ELSE CHOOSE k \in QualifiesFor(ci) : \A j \in QualifiesFor(ci) : k <= j

TSteps == [c \in Range(TCols) |-> EarliestStep(ColInfo(TArr, c))]

KindOrder ==
    <<"all_zero", "all_null", "mostly_zero", "timestamp_cluster", "constant",
      "overflow">>

KindRank(kind) == CHOOSE k \in 1..Len(KindOrder) : KindOrder[k] = kind

\* The annotations that name column c as elided by a reduction.
ElisionsOf(c) ==
    {i \in 1..Len(TOut.annotations) :
       /\ TOut.annotations[i].kind # "overflow"
       /\ c \in Range(TOut.annotations[i].cols)}

\* The step an annotation line comes from, given the step of each column.
AnnStep(step, a) == IF a.kind = "overflow" THEN 6 ELSE step[a.cols[1]]

AnnSteps(step) ==
    [i \in 1..Len(TOut.annotations) |-> AnnStep(step, TOut.annotations[i])]

NonDecreasing(ranks) ==
    \A i \in 1..(Len(ranks) - 1) : ranks[i] <= ranks[i + 1]

\* C14 as stated: each column is elided by the earliest enabled reduction it
\* qualifies for, under an annotation of that reduction's kind, and the
\* annotation kinds appear in the order all_zero, all_null, mostly_zero,
\* timestamp_cluster, constant, overflow.
C14_ElisionOrderAsClaimed ==
    tableCall.done =>
      LET step == TSteps
      IN  /\ \A c \in Range(TCols) :
               IF step[c] = 0 THEN ElisionsOf(c) = {}
               ELSE /\ Cardinality(ElisionsOf(c)) = 1
                    /\ \A i \in ElisionsOf(c) :
                         TOut.annotations[i].kind = KindOrder[step[c]]
          /\ NonDecreasing([i \in 1..Len(TOut.annotations) |->
                              KindRank(TOut.annotations[i].kind)])

\* C14: each column is elided by the earliest enabled reduction it qualifies
\* for and by no other; its annotation has that reduction's kind, except that
\* the timestamp step writes a constant clustered column as "constant"; the
\* annotation lines appear in the order of the steps that wrote them
\* (all-zero, all-null, mostly-zero, timestamps, constants), the overflow
\* line last.
C14_ElisionOrder ==
    tableCall.done =>
      LET info == TInfo
          step == [c \in Range(TCols) |-> EarliestStep(info[c])]
      IN  /\ \A c \in Range(TCols) :
               IF step[c] = 0 THEN ElisionsOf(c) = {}
               ELSE /\ Cardinality(ElisionsOf(c)) = 1
                    /\ \A i \in ElisionsOf(c) :
                         TOut.annotations[i].kind =
                           IF step[c] = 4 /\ info[c].is_constant
                           THEN "constant"
                           ELSE KindOrder[step[c]]
          /\ NonDecreasing(AnnSteps(step))

\* A table with an all-zero column, a constant nested value and two clustered
\* timestamp columns, one of them constant: lines of three steps, the
\* constant timestamp column written by the timestamp step.
C14_Witness ==
    /\ tableCall.done
    /\ \E i, j \in 1..Len(TOut.annotations) :
         /\ i < j
         /\ TOut.annotations[i].kind = "constant"
         /\ TOut.annotations[j].kind = "timestamp_cluster"
    /\ \E c \in Range(TCols) : QualifiesFor(ColInfo(TArr, c)) = {4, 5}
    /\ {1, 4, 5} \subseteq Range(AnnSteps(TSteps))

\* A column name is identity-like.
IdentityLike(c) == Leaf(c) \in OrderKeywords

\* The final columns that hold column c, alone or as a tuple member.
HoldersOf(c) ==
    {i \in 1..Len(TOut.final) : c \in Range(TOut.final[i].srcs)}

\* C15 as stated: with max_table_columns > 0 every identity-like column that
\* no reduction elided is still among the final columns and in every cleaned
\* row.
C15_IdentitySurvivesCapAsClaimed ==
    (tableCall.done /\ TH.max_table_columns > 0) =>
      \A c \in Range(TCols) :
        (IdentityLike(c) /\ ElisionsOf(c) = {}) =>
          /\ HoldersOf(c) # {}
          /\ \A i \in HoldersOf(c), r \in 1..Len(TOut.cleaned_rows) :
               HasKey(TOut.cleaned_rows[r], TOut.final[i].header)

\* preprocess_table with the same options and no width cap.
Uncapped == PreprocessTable(TArr, [TH EXCEPT !.max_table_columns = 0])

Headers(final) == [i \in 1..Len(final) |-> final[i].header]

OverflowLines ==
    {i \in 1..Len(TOut.annotations) : TOut.annotations[i].kind = "overflow"}

\* C16: with max_table_columns = m > 0 and more than m columns after the
\* reductions, the final list is the first m of them, every cleaned row has
\* m cells, and one overflow annotation, the last line, lists the dropped
\* columns in order with their count; with m = 0 or at most m columns
\* nothing is dropped and there is no overflow annotation.
C16_ColumnCap ==
    tableCall.done =>
      IF TH.max_table_columns = 0
      THEN OverflowLines = {}
      ELSE LET full == Uncapped
               m    == TH.max_table_columns
           IN  IF Len(full.final) > m
               THEN /\ TOut.final = SubSeq(full.final, 1, m)
                    /\ \A r \in 1..Len(TOut.cleaned_rows) :
                         /\ Len(TOut.cleaned_rows[r]) = m
                         /\ TOut.cleaned_rows[r] = SubSeq(full.cleaned_rows[r], 1, m)
                    /\ TOut.annotations =
                         Append(full.annotations,
                                Annotation("overflow",
                                           SubSeq(Headers(full.final), m + 1,
                                                  Len(full.final)),
                                           <<ToString(Len(full.final) - m)>>))
                    /\ Cardinality(OverflowLines) = 1
               ELSE /\ TOut.final = full.final
                    /\ TOut.cleaned_rows = full.cleaned_rows
                    /\ TOut.annotations = full.annotations
                    /\ OverflowLines = {}

\* A cap of 2 on a table that keeps a tuple column: two columns are left and
\* the overflow line names at least two dropped columns.
C16_Witness ==
    /\ tableCall.done
    /\ TH.max_table_columns = 2
    /\ Len(TOut.final) = 2
    /\ \E i \in OverflowLines :
         /\ Len(TOut.annotations[i].cols) >= 2
         /\ \E f \in Range(Uncapped.final) :
              Len(f.srcs) >= 3 /\ f.header \in Range(TOut.annotations[i].cols)

\* The place of a column among the columns in first-seen order.
FirstSeen(c) ==
    CHOOSE i \in 1..Len(UnionColumns(TArr)) : UnionColumns(TArr)[i] = c

\* C17 as stated: in the final list every identity-like column precedes
\* every column that is not identity-like, and within each class the columns
\* stand in first-seen order.
C17_IdentityFirstAsClaimed ==
    tableCall.done =>
      \A i, j \in 1..Len(TOut.final) :
        i < j =>
          /\ ~(~IdentityLike(TOut.final[i].header)
               /\ IdentityLike(TOut.final[j].header))
          /\ (IdentityLike(TOut.final[i].header)
                = IdentityLike(TOut.final[j].header)) =>
               FirstSeen(TOut.final[i].srcs[1]) < FirstSeen(TOut.final[j].srcs[1])

\* a stands before b in the order of order_columns.
OrderedBefore(a, b) ==
    \/ IdentityLike(a) /\ ~IdentityLike(b)
    \/ IdentityLike(a) = IdentityLike(b) /\ FirstSeen(a) < FirstSeen(b)

\* C17: the final columns stand in the order of their first source column,
\* identity-like source columns (case-insensitively) before the others and
\* each class in first-seen order; a tuple column stands where its first
\* member stood, so the single columns that are identity-like precede the
\* single columns that are not, while a tuple with an identity-like first
\* member stands among the identity-like columns.
C17_IdentityFirst ==
    tableCall.done =>
      /\ \A i, j \in 1..Len(TOut.final) :
           i < j => OrderedBefore(TOut.final[i].srcs[1], TOut.final[j].srcs[1])
      /\ \A i \in 1..Len(TOut.final) :
           \A k \in 2..Len(TOut.final[i].srcs) :
             OrderedBefore(TOut.final[i].srcs[1], TOut.final[i].srcs[k])

\* A capped table whose first column is a tuple led by m.id, before the
\* identity-like Name column, which was seen after the z column it precedes.
C17_Witness ==
    /\ tableCall.done
    /\ TH.max_table_columns > 0
    /\ Len(TOut.final) >= 2
    /\ Len(TOut.final[1].srcs) >= 3
    /\ TOut.final[2].header = <<"Name">>
    /\ \E a \in OverflowLines : <<"z">> \in Range(TOut.annotations[a].cols)

\* The columns no reduction elided, in column order.
Surviving == SelectIn(TCols, {c \in Range(TCols) : ElisionsOf(c) = {}})

\* The surviving columns under one dotted parent prefix, in column order.
GroupOf(pfx) ==
    SelectIn(Surviving, {c \in Range(Surviving) : Len(c) >= 2 /\ Prefix(c) = pfx})

ParentPrefixes == {Prefix(c) : c \in {d \in Range(Surviving) : Len(d) >= 2}}

\* Every formatted value of column c is a number or empty.
NumericOrEmpty(c) ==
    \A r \in 1..Len(TArr) :
      Fmt(Get(Flatten(TArr[r].o), c, Null)) \in NumericStrings \cup {""}

\* The header prefix(leaf1,leaf2,...) of the merged column of the members.
MergedHeader(pfx, members) ==
    <<JoinWith(".", pfx) \o "("
      \o JoinWith(",", [k \in 1..Len(members) |-> members[k][Len(members[k])]])
      \o ")">>

\* The headers of the columns kept and of those the width cap dropped.
AllHeaders ==
    Range(Headers(TOut.final))
    \cup UNION {Range(TOut.annotations[i].cols) : i \in OverflowLines}

\* C18: with group_tuples enabled the surviving columns of one dotted parent
\* prefix are merged into one column prefix(leaf1,leaf2,...) if and only if
\* they number between 3 and max_tuple_size and each holds only numeric or
\* empty formatted values; the merged cell of a row is the comma-join of the
\* formatted member values in member order and the members are no columns of
\* their own.  Otherwise all members remain columns of their own.
C18_TupleGrouping ==
    tableCall.done =>
      \A pfx \in ParentPrefixes :
        LET members == GroupOf(pfx)
            header  == MergedHeader(pfx, members)
        IN  IF /\ TH.group_tuples
               /\ Len(members) >= 3
               /\ Len(members) <= TH.max_tuple_size
               /\ \A c \in Range(members) : NumericOrEmpty(c)
            THEN /\ header \in AllHeaders
                 /\ \A c \in Range(members) : c \notin AllHeaders
                 /\ \A i \in 1..Len(TOut.final) :
                      TOut.final[i].header = header =>
                        /\ TOut.final[i].srcs = members
                        /\ \A r \in 1..Len(TArr) :
                             Get(TOut.cleaned_rows[r], header, Null).s =
                               JoinWith(",",
                                 [k \in 1..Len(members) |->
                                    Fmt(Get(Flatten(TArr[r].o), members[k], Null))])
            ELSE /\ header \notin AllHeaders
                 /\ \A c \in Range(members) : c \in AllHeaders
                 /\ \A i \in 1..Len(TOut.final) : Len(TOut.final[i].srcs) = 1
                      \/ Prefix(TOut.final[i].srcs[1]) # pfx

\* Four numeric members merged at max_tuple_size = 4 into m(a,b,c,d), the
\* first row's cell being 1,2,3,4.
C18_Witness ==
    /\ tableCall.done
    /\ TH.max_tuple_size = 4
    /\ \E i \in 1..Len(TOut.final) :
         /\ TOut.final[i].header = <<"m(a,b,c,d)">>
         /\ Len(TOut.final[i].srcs) = 4
         /\ Get(TOut.cleaned_rows[1], <<"m(a,b,c,d)">>, Null).s = "1,2,3,4"

\* The annotation lines of a kind.
LinesOf(kind) ==
    {i \in 1..Len(TOut.annotations) : TOut.annotations[i].kind = kind}

\* The formatted cells of column c, row by row.
FmtCells(c) ==
    [r \in 1..Len(TArr) |-> Fmt(Get(Flatten(TArr[r].o), c, Null))]

\* The label=value pairs of the rows of column c that are not zero-equivalent
\* in the sense of the claim, as label, value, label, value, ...
ClaimedOutliers(c) ==
    LET id_col == FindIdentityColumn(TCols, TArr)
        rows   == SelectIn([r \in 1..Len(TArr) |-> r],
                           {r \in 1..Len(TArr) :
                              FmtCells(c)[r] \notin {"0", "0.0", ""}})
    IN  Concat([k \in 1..Len(rows) |->
                  << IF id_col # <<>>
                     THEN Fmt(Get(Flatten(TArr[rows[k]].o), id_col[1], Null))
                     ELSE ToString(rows[k] - 1),
                     FmtCells(c)[rows[k]] >>])

\* C19 as stated: with elide_mostly_zero_pct = p > 0 a column the all-zero
\* and all-null steps did not elide is elided as mostly_zero if and only if
\* the share of its rows holding "0", "0.0" or nothing is at least p, and its
\* annotation lists the other rows, in row order, as label=value.
C19_MostlyZeroAsClaimed ==
    (tableCall.done /\ TH.elide_mostly_zero_pct > 0) =>
      \A c \in Range(TCols) :
        (\A i \in LinesOf("all_zero") \cup LinesOf("all_null") :
            c \notin Range(TOut.annotations[i].cols)) =>
          LET lines == {i \in LinesOf("mostly_zero") :
                          TOut.annotations[i].cols = <<c>>}
              zeros == Cardinality({r \in 1..Len(TArr) :
                                      FmtCells(c)[r] \in {"0", "0.0", ""}})
          IN  /\ (lines # {}) <=>
                   (zeros * 100 >= TH.elide_mostly_zero_pct * Len(TArr))
              /\ \A i \in lines :
                   TOut.annotations[i].values = ClaimedOutliers(c)

\* C20 as stated: a disabled reduction writes no annotation of its kind
\* (all_zero, all_null, timestamp_cluster, constant) and merges no tuple,
\* whatever the other options; with all five disabled, no cap and no
\* mostly-zero threshold there are no annotations and the final columns are
\* the table's columns.
C20_DisabledDoesNothingAsClaimed ==
    tableCall.done =>
      /\ ~TH.elide_all_zero => LinesOf("all_zero") = {}
      /\ ~TH.elide_all_null => LinesOf("all_null") = {}
      /\ ~TH.elide_timestamps => LinesOf("timestamp_cluster") = {}
      /\ ~TH.elide_constants => LinesOf("constant") = {}
      /\ ~TH.group_tuples =>
           \A i \in 1..Len(TOut.final) : Len(TOut.final[i].srcs) = 1
      /\ (TH = Switches({})) =>
           /\ TOut.annotations = <<>>
           /\ Headers(TOut.final) = TCols

\* C20: a disabled reduction writes no annotation of its kind and merges no
\* tuple, whatever the other options, except that with elide_constants
\* disabled and elide_timestamps enabled the timestamp step still writes a
\* "constant" line for a clustered timestamp column whose values are all the
\* same; with all five disabled, no cap and no mostly-zero threshold there
\* are no annotations and the final columns are the table's columns.
C20_DisabledDoesNothing ==
    tableCall.done =>
      /\ ~TH.elide_all_zero => LinesOf("all_zero") = {}
      /\ ~TH.elide_all_null => LinesOf("all_null") = {}
      /\ ~TH.elide_timestamps => LinesOf("timestamp_cluster") = {}
      /\ ~TH.elide_constants =>
           \A i \in LinesOf("constant") :
             /\ TH.elide_timestamps
             /\ ColInfo(TArr, TOut.annotations[i].cols[1]).ts_clustered
             /\ ColInfo(TArr, TOut.annotations[i].cols[1]).is_constant
      /\ ~TH.group_tuples =>
           \A i \in 1..Len(TOut.final) : Len(TOut.final[i].srcs) = 1
      /\ (TH = Switches({})) =>
           /\ TOut.annotations = <<>>
           /\ Headers(TOut.final) = TCols
           /\ \A r \in 1..Len(TArr) :
                Len(TOut.cleaned_rows[r]) = Len(TCols)

\* elide_constants alone disabled: the constant nested value m.c stays a
\* column while the constant timestamp column is written off as "constant".
C20_Witness ==
    /\ tableCall.done
    /\ TH = Switches(ReductionNames \ {"elide_constants"})
    /\ \E i \in LinesOf("constant") : TOut.annotations[i].cols = <<<<"ts">>>>
    /\ \E i \in 1..Len(TOut.final) : <<"m", "c">> \in Range(TOut.final[i].srcs)
    /\ ColInfo(TArr, <<"m", "c">>).is_constant

\* The non-null cells of the column ts, row by row.
TsValues ==
    SelectIn([r \in 1..Len(TArr) |-> Get(Flatten(TArr[r].o), <<"ts">>, Null)],
             {v \in TsCells : v # Null})

\* A value is an ISO-8601 timestamp.
IsTimestamp(v) ==
    v.t = "string" /\ v.s \in DOMAIN Timestamps /\ Timestamps[v.s].ok

\* The timestamps of the column, earliest first.
RECURSIVE SortedBySec(_)
SortedBySec(vals) ==
    IF vals = <<>> THEN <<>>
    ELSE LET k == CHOOSE i \in 1..Len(vals) :
                    \A j \in 1..Len(vals) :
                      Timestamps[vals[i].s].sec <= Timestamps[vals[j].s].sec
         IN  <<vals[k]>> \o SortedBySec(WithoutIndex(vals, k))

\* The lines the timestamp step wrote for the column ts, when
\* elide_constants is disabled.
TsLines ==
    {i \in LinesOf("timestamp_cluster") \cup LinesOf("constant") :
       TOut.annotations[i].cols = <<<<"ts">>>>}

\* C25 as stated: with elide_timestamps enabled a column not already elided
\* is elided by the timestamp reduction if and only if every non-null value
\* is an ISO-8601 timestamp and the latest is at most 60 seconds after the
\* earliest; the timestamp_cluster annotation gives the element at index n/2
\* of the sorted values.
C25_TimestampClusterAsClaimed ==
    (/\ tableCall.done
     /\ TH.elide_timestamps /\ ~TH.elide_constants
     /\ ElisionsOf(<<"ts">>) \cap (LinesOf("all_zero") \cup LinesOf("all_null")) = {}
     /\ TsValues # <<>>) =>
       /\ (TsLines # {}) <=>
            /\ \A v \in Range(TsValues) : IsTimestamp(v)
            /\ \A v, w \in Range(TsValues) :
                 Timestamps[v.s].sec - Timestamps[w.s].sec <= 60
       /\ \A i \in TsLines \cap LinesOf("timestamp_cluster") :
            /\ \A v \in Range(TsValues) : IsTimestamp(v)
            /\ TOut.annotations[i].values =
                 <<Timestamps[SortedBySec(TsValues)[Len(TsValues) \div 2 + 1].s].iso>>

\* The final columns (given as a final list) that hold source column c.
HoldingIn(final, c) == {i \in 1..Len(final) : c \in Range(final[i].srcs)}

\* The annotation lines that name column c: an elision line lists the column
\* itself; the overflow line lists the dropped final columns by header, that
\* of a tuple column being parent(leaf,leaf,...) of its members.
NamingLines(full, c) ==
    {i \in 1..Len(TOut.annotations) :
       LET a == TOut.annotations[i]
       IN  IF a.kind = "overflow"
           THEN \E j \in HoldingIn(full.final, c) :
                  full.final[j].header \in Range(a.cols)
           ELSE c \in Range(a.cols)}

\* The overflow line names column c by the column's own name.
NamedByOwnName(c) ==
    \E i \in OverflowLines : c \in Range(TOut.annotations[i].cols)

\* Column c has a cell in some cleaned row.
InCleanedRows(c) ==
    \E r \in 1..Len(TOut.cleaned_rows) :
      \E j \in HoldingIn(TOut.final, c) :
        HasKey(TOut.cleaned_rows[r], TOut.final[j].header)

C26_CleanedRowsAsClaimed ==
    (tableCall.done /\ ~TOut.raises) =>
      /\ Len(TOut.cleaned_rows) = Len(TArr)
      /\ \A r \in 1..Len(TOut.cleaned_rows) :
           /\ Keys(TOut.cleaned_rows[r]) = Headers(TOut.final)
           /\ \A i \in 1..Len(TOut.cleaned_rows[r]) :
                ~IsList(TOut.cleaned_rows[r][i].v)

\* The shape of the cleaned rows alone: the headers as keys, in order, one
\* row per source object.
CleanedRowsShape ==
    (tableCall.done /\ ~TOut.raises) =>
      /\ Len(TOut.cleaned_rows) = Len(TArr)
      /\ \A r \in 1..Len(TOut.cleaned_rows) :
           Keys(TOut.cleaned_rows[r]) = Headers(TOut.final)

(***************************************************************************)
(* Claims about flatten and find_identity_column.                          *)
(***************************************************************************)

\* The leaves of an object below the path pfx: the keys on the way to each
\* value that is not a dict, and the value.
RECURSIVE LeafEntries(_, _)
LeafEntries(obj, pfx) ==
    UNION { IF IsDict(obj[i].v)
            THEN LeafEntries(obj[i].v.o, Append(pfx, obj[i].k))
            ELSE {[path |-> Append(pfx, obj[i].k), v |-> obj[i].v]} :
            i \in 1..Len(obj) }

\* C30 as stated: flatten(obj) holds no dict value, has exactly one entry
\* per leaf of the object, under the dotted concatenation of the leaf's path,
\* and each entry holds its leaf's value, arrays whole.
C30_FlattenKeepsLeavesAsClaimed ==
    (fnCall.done /\ fnCall.fn = "flatten") =>
      LET leaves == LeafEntries(fnCall.args[1], <<>>)
      IN  /\ \A i \in 1..Len(fnCall.out) : ~IsDict(fnCall.out[i].v)
          /\ Len(fnCall.out) = Cardinality(leaves)
          /\ \A l \in leaves :
               /\ HasKey(fnCall.out, Concat(l.path))
               /\ Get(fnCall.out, Concat(l.path), Null) = l.v

\* The columns matching keyword kw, in column order.
KeywordMatches(cols, kw) ==
    SelectIn(cols, {c \in Range(cols) : Leaf(c) = kw})

\* C21: find_identity_column returns, for the first keyword of name, id, uid
\* that matches the final dotted segment of a column (case-insensitively),
\* the only matching column, or among several a matching column with the
\* most distinct non-empty formatted values (the first match without rows);
\* without a matching keyword the first column, and None only for no columns.
C21_IdentityColumn ==
    (fnCall.done /\ fnCall.fn = "find_identity_column") =>
      LET cols == fnCall.args[1]
          kws  == <<"name", "id", "uid">>
          hits == {i \in 1..3 : KeywordMatches(cols, kws[i]) # <<>>}
      IN  IF hits = {}
          THEN fnCall.out = IF cols = <<>> THEN <<>> ELSE <<cols[1]>>
          ELSE LET first   == CHOOSE i \in hits : \A j \in hits : i <= j
                   matches == KeywordMatches(cols, kws[first])
               IN  /\ Len(fnCall.out) = 1
                   /\ fnCall.out[1] \in Range(matches)
                   /\ Len(fnCall.args) = 1 => fnCall.out[1] = matches[1]
                   /\ Len(fnCall.args) = 2 =>
                        \A c \in Range(matches) :
                          ColCardinality(fnCall.args[2], c)
                            <= ColCardinality(fnCall.args[2], fnCall.out[1])

\* Two name columns and an id column with rows: the second name column has
\* more distinct values than the first and is returned, although the id
\* column has as many.
C21_Witness ==
    /\ fnCall.done
    /\ fnCall.fn = "find_identity_column"
    /\ Len(fnCall.args) = 2
    /\ fnCall.args[1] = <<<<"id">>, <<"Name">>, <<"m", "name">>>>
    /\ fnCall.out = <<<<"m", "name">>>>
    /\ ColCardinality(fnCall.args[2], <<"id">>) = 2
    /\ ColCardinality(fnCall.args[2], <<"Name">>) = 1

(***************************************************************************)
(* Claims about multi-upstream startup.                                    *)
(***************************************************************************)

\* The tools of a server that pass its allowlist.
AllowedTools(srv) ==
    {t \in Range(srv.mcp_tools) : ~FilteredOut(srv, t)}

\* Two servers of the configuration expose the same allowed tool name.
SharedToolNames ==
    {t \in UpstreamToolNames :
       \E i, j \in 1..Len(startup.servers) :
         /\ i < j
         /\ t \in AllowedTools(startup.servers[i])
         /\ t \in AllowedTools(startup.servers[j])}

\* The registrations made so far never gave one name to two servers, and
\* tool_server_map holds what was registered.
NeverRemapped ==
    /\ \A i, j \in 1..Len(startup.added) :
         startup.added[i].name = startup.added[j].name => i = j
    /\ DOMAIN startup.tool_server_map =
         {startup.added[i].name : i \in 1..Len(startup.added)}
    /\ \A i \in 1..Len(startup.added) :
         startup.tool_server_map[startup.added[i].name]
           = startup.added[i].server

\* C22: with prefix_tools disabled, two upstreams exposing (after the
\* allowlist filter) the same tool name make startup fail with an error that
\* names the tool and both servers, no entry of tool_server_map is ever
\* remapped to another server, and when all names are distinct every
\* registered tool maps to the server that provides it.
C22_UnprefixedCollisionsFatal ==
    (startup.phase # "idle" /\ ~startup.prefix_tools) =>
      /\ NeverRemapped
      /\ startup.error.raised <=> startup.phase = "failed"
      /\ startup.error.raised =>
           /\ startup.error.tool \in SharedToolNames
           /\ startup.error.existing # startup.error.server
           /\ \E i, j \in 1..Len(startup.servers) :
                /\ i < j
                /\ startup.servers[i].name = startup.error.existing
                /\ startup.servers[j].name = startup.error.server
                /\ startup.error.tool \in AllowedTools(startup.servers[i])
                /\ startup.error.tool \in AllowedTools(startup.servers[j])
      /\ SharedToolNames # {} => startup.phase # "serving"
      /\ startup.phase = "serving" =>
           \A i \in 1..Len(startup.servers) :
             \A t \in AllowedTools(startup.servers[i]) :
               /\ t \in DOMAIN startup.tool_server_map
               /\ startup.tool_server_map[t] = startup.servers[i].name

\* Both servers list get and allow it, without prefixes: startup fails on the
\* second server, naming get, the first and the second server, and the map
\* still gives get to the first server.
C22_Witness ==
    /\ ~startup.prefix_tools
    /\ startup.phase = "failed"
    /\ startup.error = CollisionError(ToolGet, startup.servers[1].name,
                                      startup.servers[2].name)
    /\ startup.tool_server_map[ToolGet] = startup.servers[1].name
    /\ ~startup.servers[1].tools_all

\* C23 as stated: for every tool registered by the proxy, with and without
\* prefixes, _base_tool_name of the registered name is the tool's name at
\* its upstream.
C23_BaseNameRecoveryAsClaimed ==
    \A i \in 1..Len(startup.resolved), j \in 1..Len(startup.added) :
      startup.added[j].name = startup.resolved[i].name =>
        startup.resolved[i].base = startup.added[j].tool

\* C29 as stated: with prefix_tools enabled, distinct (server, tool) pairs
\* receive distinct registered names, no entry of tool_server_map is
\* overwritten, and every registered name resolves to its server and its
\* upstream tool.
C29_PrefixedNeverCollidesAsClaimed ==
    (startup.phase # "idle" /\ startup.prefix_tools) =>
      /\ NeverRemapped
      /\ \A i \in 1..Len(startup.resolved), j \in 1..Len(startup.added) :
           startup.added[j].name = startup.resolved[i].name =>
             /\ startup.resolved[i].server = startup.added[j].server
             /\ startup.resolved[i].base = startup.added[j].tool

(***************************************************************************)
(* Claims about on_list_tools.                                             *)
(***************************************************************************)

\* The modes in which on_call_tool rewrites a tool's response.
RewritingModes == {"toon_only", "condense", "toon_fallback"}

\* The tool resolves to a server configuration with condensing enabled for
\* which the mode selection of on_call_tool gives a rewriting mode.
Rewritten(m, tool_name) ==
    LET cfg == ResolveServerConfig(m, tool_name)
    IN  /\ cfg # <<>>
        /\ cfg[1].condense
        /\ SelectMode(BaseToolName(m, tool_name), cfg[1]) \in RewritingModes

\* C24: on_list_tools clears a tool's output_schema if and only if the tool
\* resolves to a server configuration with condense enabled and the mode
\* selection gives toon_only, condense or toon_fallback; otherwise the
\* tool's output_schema is unchanged.  Nothing else of the list changes.
C24_SchemaStripping ==
    listCall.done =>
      /\ Len(listCall.out) = Len(listCall.tools)
      /\ \A i \in 1..Len(listCall.tools) :
           /\ listCall.out[i].name = listCall.tools[i].name
           /\ listCall.out[i].output_schema =
                IF Rewritten(listCall.mw, listCall.tools[i].name)
                THEN "none"
                ELSE listCall.tools[i].output_schema

\* A prefixed tool outside the allowlist loses its schema because of
\* toon_fallback, and a tool unknown to tool_server_map in the same list
\* keeps its schema.
C24_Witness ==
    /\ listCall.done
    /\ ~listCall.mw.map_is_none
    /\ Len(listCall.tools) = 2
    /\ listCall.tools[1] = [name |-> ServerK8s \o <<"_">> \o ToolGet,
                            output_schema |-> "schema"]
    /\ listCall.tools[2] = [name |-> ToolOther, output_schema |-> "schema"]
    /\ LET cfg == ResolveServerConfig(listCall.mw, listCall.tools[1].name)[1]
       IN  /\ cfg.condense
           /\ cfg.toon_fallback
           /\ ~cfg.tools_all
           /\ ToolGet \notin cfg.tools
           /\ ToolGet \notin cfg.toon_only_tools
    /\ listCall.out[1].output_schema = "none"
    /\ listCall.out[2].output_schema = "schema"

====
